---- MODULE Spec2Model ----
(***************************************************************************)
(* A model of the contract scanner of the crypto-token-analyzer skill      *)
(* (skills/crypto-token-analyzer/scripts/scan_contract.py): the ownership  *)
(* resolver check_ownership_status, the source normalizer inside           *)
(* fetch_contract_source and the risk aggregator calculate_risk_score.     *)
(*                                                                         *)
(* Python strings are modelled as sequences of one-character strings, so   *)
(* that slicing, prefixes and comparison are computed and not assumed.     *)
(* Python dicts are modelled as functions on a set of string keys.         *)
(***************************************************************************)
EXTENDS Integers, Sequences, FiniteSets, TLC

VARIABLES
    pc,           \* position of the call under study: "call", "return", "raise"
    findings,     \* findings dict: severity -> list of findings
    is_verified,  \* bool(source_code) of fetch_contract_source
    ownership,    \* ownership_info dict of check_ownership_status
    risk_score,   \* first component of calculate_risk_score's result
    risk_level,   \* second component of calculate_risk_score's result
    data,         \* the explorer's decoded JSON answer to the request
    source_code,  \* second component of fetch_contract_source's result
    contract_name,\* third component of fetch_contract_source's result
    exc,          \* the exception a call ended with, "none" when it returned
    logs,         \* main: the explorer's decoded JSON answer to the getLogs request
    previous,     \* main: the result of the run before this one
    run,          \* main: the number of this run
    order,        \* the keys of the findings dict in the order of the dict
    slots,        \* scan by rule: the output slot of each rule
    lp_pairs,     \* check_liquidity: result of find_liquidity_pairs
    lock_data,    \* check_liquidity: the explorer's answer on the LP token's transfers
    lock_status,  \* check_liquidity: lock_info dict of check_lp_lock_status
    chain,        \* check_liquidity: args.chain
    slither_output, \* run_slither: the decoded output of the analyzer
    findings_data,  \* generate_report: the loaded findings document
    content,      \* validate_skill: the text of SKILL.md
    validation,   \* validate_skill: the result dict
    skill_dir,    \* validate_skill: the directory of the skill
    balances,     \* analyze_holders: the balances dict of analyze_from_transfers
    holders,      \* analyze_holders: the list analyze_from_transfers returns
    next_tx       \* analyze_holders: the place of the loop in the transfers

vars == <<pc, findings, is_verified, ownership, risk_score, risk_level, data,
          source_code, contract_name, exc, logs, previous, run, order,
          slots, lp_pairs, lock_data, lock_status, chain, slither_output,
          findings_data,
          content, validation, skill_dir, balances, holders, next_tx>>

\* the variables of the scanner's pipeline
scanvars == <<findings, is_verified, ownership, risk_score, source_code,
              contract_name, logs, previous, run, order>>

\* the variables of the other scripts
liquidityvars == <<lp_pairs, lock_data, lock_status, chain>>
reportvars == <<slither_output, findings_data>>
validatevars == <<content, validation, skill_dir>>
holdersvars == <<balances, holders, next_tx>>
othervars == <<slots, liquidityvars, reportvars, validatevars, holdersvars>>

\* the other scripts' variables while the scanner runs
NoLiquidity ==
    lp_pairs = <<>> /\ lock_data = <<>> /\ lock_status = <<>> /\ chain = "eth"
NoReport == slither_output = <<>> /\ findings_data = <<>>
NoValidate == content = <<>> /\ validation = <<>> /\ skill_dir = <<>>
NoHolders == balances = <<>> /\ holders = <<>> /\ next_tx = 1
NoOthers == slots = <<>> /\ NoLiquidity /\ NoReport /\ NoValidate /\ NoHolders

\* the variables only main's runs use
mainvars == <<logs, previous, run>>

(***************************************************************************)
(* Bounds of the model.                                                    *)
(***************************************************************************)
MaxFindings == 5    \* longest findings list per severity given to the aggregator

(***************************************************************************)
(* Python helpers.                                                         *)
(***************************************************************************)
Min(a, b) == IF a <= b THEN a ELSE b
Max(a, b) == IF a >= b THEN a ELSE b

\* c * n for a string c: the sequence of n copies of c
Rep(c, n) == [i \in 1..n |-> c]

\* d.get(k, default)
Get(d, k, default) == IF k \in DOMAIN d THEN d[k] ELSE default

\* the str "Unknown"
UnknownOwner == <<"U", "n", "k", "n", "o", "w", "n">>

\* the str "0x0000000000000000000000000000000000000000" (scan_contract.py:243)
ZeroAddress == <<"0", "x">> \o Rep("0", 40)

Severities == {"critical", "high", "medium", "info"}

(***************************************************************************)
(* calculate_risk_score (scan_contract.py:250-284).                        *)
(*                                                                         *)
(* The score is accumulated in Python numbers: an int until the first      *)
(* float weight (1.5) is added, a float afterwards.  Every value it takes  *)
(* is a multiple of 0.5 far below 2^53, so the float arithmetic is exact   *)
(* and the model counts the score in halves: Half(n) is the number n.      *)
(***************************************************************************)
Half(n) == 2 * n

\* int(score) for a non-negative score counted in halves: truncation
IntOf(halves) == halves \div 2

\* lines 252-269: the accumulation, in halves.  RawScoreInfoWeighted is the
\* accumulation with a weight given to info findings as well.
RawScoreInfoWeighted(f, v, o) ==
    LET s0 == 0
        s1 == IF ~ v THEN s0 + Half(4) ELSE s0
        s2 == IF ~ Get(o, "renounced", FALSE) THEN s1 + Half(2) ELSE s1
        s3 == s2 + Len(Get(f, "critical", <<>>)) * Half(3)
        s4 == s3 + Len(Get(f, "high", <<>>)) * 3
        s5 == s4 + Len(Get(f, "medium", <<>>)) * 1
    IN  s5 + Len(Get(f, "info", <<>>)) * 1

\* the occurrences of the findings of a list added up
RECURSIVE Occurrences(_)
Occurrences(list) ==
    IF Len(list) = 0 THEN 0 ELSE list[1].occurrences + Occurrences(Tail(list))

\* RawScoreByOccurrences weighs every occurrence instead of every finding.
RawScoreByOccurrences(f, v, o) ==
    LET s1 == IF ~ v THEN Half(4) ELSE 0
        s2 == IF ~ Get(o, "renounced", FALSE) THEN s1 + Half(2) ELSE s1
        s3 == s2 + Occurrences(Get(f, "critical", <<>>)) * Half(3)
        s4 == s3 + Occurrences(Get(f, "high", <<>>)) * 3
    IN  s4 + Occurrences(Get(f, "medium", <<>>)) * 1

\* RawScoreCriticalTwo gives a critical finding the weight 2.
RawScoreCriticalTwo(f, v, o) ==
    LET s1 == IF ~ v THEN Half(4) ELSE 0
        s2 == IF ~ Get(o, "renounced", FALSE) THEN s1 + Half(2) ELSE s1
        s3 == s2 + Len(Get(f, "critical", <<>>)) * Half(2)
        s4 == s3 + Len(Get(f, "high", <<>>)) * 3
    IN  s4 + Len(Get(f, "medium", <<>>)) * 1

\* RawScoreNoVerification adds nothing for an unverified source.
RawScoreNoVerification(f, v, o) ==
    LET s2 == IF ~ Get(o, "renounced", FALSE) THEN Half(2) ELSE 0
        s3 == s2 + Len(Get(f, "critical", <<>>)) * Half(3)
        s4 == s3 + Len(Get(f, "high", <<>>)) * 3
    IN  s4 + Len(Get(f, "medium", <<>>)) * 1

\* RawScoreCriticalRebate takes the weight 3 off from the second critical
\* finding on.
RawScoreCriticalRebate(f, v, o) ==
    LET s1 == IF ~ v THEN Half(4) ELSE 0
        s2 == IF ~ Get(o, "renounced", FALSE) THEN s1 + Half(2) ELSE s1
        n == Len(Get(f, "critical", <<>>))
        s3 == s2 + (IF n = 0 THEN 0 ELSE Max(0, Half(3) - (n - 1) * Half(3)))
        s4 == s3 + Len(Get(f, "high", <<>>)) * 3
    IN  s4 + Len(Get(f, "medium", <<>>)) * 1

RawScore(f, v, o) ==
    LET s0 == 0
        \* if not is_verified: score += 4
        s1 == IF ~ v THEN s0 + Half(4) ELSE s0
        \* if not ownership.get("renounced"): score += 2
        s2 == IF ~ Get(o, "renounced", FALSE) THEN s1 + Half(2) ELSE s1
        \* score += len(findings.get("critical", [])) * 3
        s3 == s2 + Len(Get(f, "critical", <<>>)) * Half(3)
        \* score += len(findings.get("high", [])) * 1.5
        s4 == s3 + Len(Get(f, "high", <<>>)) * 3
        \* score += len(findings.get("medium", [])) * 0.5
        s5 == s4 + Len(Get(f, "medium", <<>>)) * 1
    IN  s5

\* line 272: score = min(10, max(1, int(score))).  ClampNoFloor is the clamp
\* without its lower bound.
ClampNoFloor(halves) == Min(10, IntOf(halves))

Clamp(halves) == Min(10, Max(1, IntOf(halves)))

\* lines 275-282: the ladder.  RiskLevelStrict is the ladder with strict
\* comparisons.
RiskLevelStrict(score) ==
    IF score > 8 THEN "Critical"
    ELSE IF score > 6 THEN "High"
    ELSE IF score > 4 THEN "Medium"
    ELSE "Low"

RiskLevel(score) ==
    IF score >= 8 THEN "Critical"
    ELSE IF score >= 6 THEN "High"
    ELSE IF score >= 4 THEN "Medium"
    ELSE "Low"

\* the pair calculate_risk_score returns
calculate_risk_score(f, v, o) ==
    LET score == Clamp(RawScore(f, v, o))
    IN  <<score, RiskLevel(score)>>

(***************************************************************************)
(* Inputs of the aggregator: every findings dict with any subset of the    *)
(* four severity keys (main passes {} when the source is empty, line 312)  *)
(* and lists of 0..MaxFindings findings, both verification flags and the   *)
(* three kinds of ownership_info check_ownership_status can return.        *)
(***************************************************************************)
Finding(i) == [name |-> i, occurrences |-> 1]

FindingList(n) == [i \in 1..n |-> Finding(i)]

FindingLists == {FindingList(n) : n \in 0..MaxFindings}

FindingsDicts == UNION {[S -> FindingLists] : S \in SUBSET Severities}

SomeOwner == <<"0", "x">> \o Rep("a", 39) \o <<"F">>

OwnershipRenounced ==
    [renounced |-> TRUE, current_owner |-> ZeroAddress, transfer_events |-> 1]

OwnershipHeldBy ==
    [renounced |-> FALSE, current_owner |-> SomeOwner, transfer_events |-> 1]

OwnershipUnknown ==
    [renounced |-> FALSE, current_owner |-> UnknownOwner, transfer_events |-> 0]

OwnershipKinds == {OwnershipRenounced, OwnershipHeldBy, OwnershipUnknown}

NoData == [status |-> "0", result |-> <<>>]

\* no run before this one
NoResult == <<>>

\* main's variables outside main
NoMain == logs = NoData /\ previous = NoResult /\ run = 1

RiskInit ==
    /\ pc = "call"
    /\ findings \in FindingsDicts
    /\ is_verified \in BOOLEAN
    /\ ownership \in OwnershipKinds
    /\ risk_score = 0
    /\ risk_level = "none"
    /\ data = NoData
    /\ source_code = <<>>
    /\ contract_name = <<>>
    /\ exc = "none"
    /\ NoMain
    /\ order = <<>>
    /\ NoOthers

CalculateRiskScore ==
    /\ pc = "call"
    /\ LET r == calculate_risk_score(findings, is_verified, ownership)
       IN  /\ risk_score' = r[1]
           /\ risk_level' = r[2]
    /\ pc' = "return"
    /\ UNCHANGED <<findings, is_verified, ownership, data,
                   source_code, contract_name, exc>>
    /\ UNCHANGED mainvars
    /\ UNCHANGED order
    /\ UNCHANGED othervars

RiskNext == CalculateRiskScore

RiskSpec == RiskInit /\ [][RiskNext]_vars

(***************************************************************************)
(* check_ownership_status (scan_contract.py:207-247).                      *)
(*                                                                         *)
(* The HTTP request of lines 209-222 is the function's input: data is the  *)
(* explorer's decoded answer, a dict with "status" and "result".  The      *)
(* explorer answers status "1" with the list of matching logs, and status  *)
(* "0" with an empty list when there are none.                             *)
(***************************************************************************)
MaxEvents == 3      \* longest list of log events in an answer

\* the str "0x" + "0" * 64 (line 241)
ZeroTopic == <<"0", "x">> \o Rep("0", 64)

\* s[-n:]
LastN(s, n) == SubSeq(s, Max(1, Len(s) - n + 1), Len(s))

\* bool(x) of a list
Truthy(list) == Len(list) > 0

\* events[-1] (line 236).  FirstEvent reads the oldest event instead.
FirstEvent(events) == events[1]

LastEvent(events) == events[Len(events)]

\* new_owner == "0x" + "0" * 64 (line 241).  IsZeroTopicPadding looks at the
\* 12 padding bytes only; IsZeroTopicShort compares with a 20-byte zero word.
IsZeroTopicPadding(new_owner) == SubSeq(new_owner, 1, 26) = SubSeq(ZeroTopic, 1, 26)

IsZeroTopicShort(new_owner) == new_owner = ZeroAddress

IsZeroTopic(new_owner) == new_owner = ZeroTopic

\* len(events) (line 232).  CountWellFormed counts the events that have the
\* three topics; CountEarlier leaves the last event out.
CountWellFormed(events) ==
    Cardinality({i \in 1..Len(events) : Len(Get(events[i], "topics", <<>>)) >= 3})

CountEarlier(events) == Len(events) - 1

TransferEvents(events) == Len(events)

\* lines 224-247
check_ownership_status(d) ==
    LET ownership_info ==
            [renounced |-> FALSE, current_owner |-> UnknownOwner, transfer_events |-> 0]
    IN  IF Get(d, "status", "") = "1" /\ Truthy(Get(d, "result", <<>>))
        THEN LET events == d["result"]
                 counted == [ownership_info EXCEPT !.transfer_events = TransferEvents(events)]
                 last_event == LastEvent(events)
                 topics == Get(last_event, "topics", <<>>)
             IN  IF Truthy(events) /\ Len(topics) >= 3
                 THEN LET new_owner == topics[3]
                      IN  IF IsZeroTopic(new_owner)
                          THEN [counted EXCEPT !.renounced = TRUE,
                                               !.current_owner = ZeroAddress]
                          ELSE [counted EXCEPT !.current_owner =
                                                   <<"0", "x">> \o LastN(new_owner, 40)]
                 ELSE counted
        ELSE ownership_info

(***************************************************************************)
(* Inputs of the resolver.  A topic is "0x" and 64 hex digits: 12 bytes of *)
(* padding and the 20 bytes of an address.  A contract can emit a log with *)
(* any 32-byte topic, so the padding is not always zero.                   *)
(***************************************************************************)
\* topic0 of the request (line 217)
OwnershipTransferred ==
    <<"0", "x", "8", "b", "e", "0", "0", "7", "9", "c", "5",
       "3", "1", "6", "5", "9", "1", "4", "1", "3", "4", "4",
       "c", "d", "1", "f", "d", "0", "a", "4", "f", "2", "8",
       "4", "1", "9", "4", "9", "7", "f", "9", "7", "2", "2",
       "a", "3", "d", "a", "a", "f", "e", "3", "b", "4", "1",
       "8", "6", "f", "6", "b", "6", "4", "5", "7", "e", "0">>

Topic(padding, address) == <<"0", "x">> \o padding \o address

ZeroPadding == Rep("0", 24)

DirtyPadding == Rep("0", 23) \o <<"1">>

NoAddress == Rep("0", 40)

HolderAddress == Rep("a", 39) \o <<"F">>

LowAddress == Rep("0", 39) \o <<"1">>

PreviousOwner == Topic(ZeroPadding, HolderAddress)

\* an OwnershipTransferred log whose third topic is t
Transfer(t) == [topics |-> <<OwnershipTransferred, PreviousOwner, t>>]

WellFormedEvents ==
    { Transfer(Topic(ZeroPadding, NoAddress)),
      Transfer(Topic(ZeroPadding, HolderAddress)),
      Transfer(Topic(ZeroPadding, LowAddress)),
      Transfer(Topic(DirtyPadding, NoAddress)),
      [topics |-> <<OwnershipTransferred, PreviousOwner,
                    Topic(ZeroPadding, NoAddress), PreviousOwner>>] }

MalformedEvents ==
    { [topics |-> <<>>],
      [topics |-> <<OwnershipTransferred, Topic(ZeroPadding, NoAddress)>>],
      [blockNumber |-> <<"0", "x", "1">>] }

Events == WellFormedEvents \cup MalformedEvents

EventLists == UNION {[1..n -> Events] : n \in 0..MaxEvents}

LogAnswers == {[status |-> "1", result |-> evs] : evs \in EventLists} \cup {NoData}

OwnerInit ==
    /\ pc = "call"
    /\ data \in LogAnswers
    /\ ownership = OwnershipUnknown
    /\ findings = <<>>
    /\ is_verified = FALSE
    /\ risk_score = 0
    /\ risk_level = "none"
    /\ source_code = <<>>
    /\ contract_name = <<>>
    /\ exc = "none"
    /\ NoMain
    /\ order = <<>>
    /\ NoOthers

CheckOwnershipStatus ==
    /\ pc = "call"
    /\ ownership' = check_ownership_status(data)
    /\ pc' = "return"
    /\ UNCHANGED <<findings, is_verified, risk_score, risk_level, data,
                   source_code, contract_name, exc>>
    /\ UNCHANGED mainvars
    /\ UNCHANGED order
    /\ UNCHANGED othervars

OwnerNext == CheckOwnershipStatus

OwnerSpec == OwnerInit /\ [][OwnerNext]_vars

(***************************************************************************)
(* json.loads, as fetch_contract_source uses it (scan_contract.py:163 and  *)
(* 172): the recursive-descent decoder of Python's json module on a str,   *)
(* over the characters the payloads of this model are written in.  A       *)
(* decoded value is [type, val]: "str" (val the characters), "num" (val    *)
(* the digits), "null", "bool", "arr" (val the list of values) and "obj"   *)
(* (val the list of <<key, value>> pairs in dict order).  A result with    *)
(* ok = FALSE is json.JSONDecodeError.                                     *)
(***************************************************************************)
QUOTE == "\""

BSLASH == "\\"

NEWLINE == "\n"

Whitespace == {" ", NEWLINE}

Digits == {"0", "1", "2", "3", "4", "5", "6", "7", "8", "9"}

JSONDecodeError == [ok |-> FALSE, val |-> [type |-> "null", val |-> <<>>], pos |-> 0]

Decoded(type, val, pos) == [ok |-> TRUE, val |-> [type |-> type, val |-> val], pos |-> pos]

\* s.startswith(prefix)
StartsWith(s, prefix) ==
    Len(s) >= Len(prefix) /\ SubSeq(s, 1, Len(prefix)) = prefix

\* the word stands in s at position i
Match(s, i, word) ==
    i + Len(word) - 1 <= Len(s) /\ SubSeq(s, i, i + Len(word) - 1) = word

\* the first position at or after i that holds no whitespace
RECURSIVE SkipWs(_, _)
SkipWs(s, i) ==
    IF i <= Len(s) /\ s[i] \in Whitespace THEN SkipWs(s, i + 1) ELSE i

\* the character an escape sequence \c stands for.  UnescapeVerbatim keeps
\* the letter of the escape.
UnescapeVerbatim(c) == c

Unescape(c) == IF c = "n" THEN NEWLINE ELSE c

\* the body of a string literal from position i (after the opening quote):
\* a raw control character and an unknown escape are errors (strict mode)
RECURSIVE ScanString(_, _, _)
ScanString(s, i, acc) ==
    IF i > Len(s) THEN JSONDecodeError
    ELSE IF s[i] = QUOTE THEN Decoded("str", acc, i + 1)
    ELSE IF s[i] = BSLASH
         THEN IF i + 1 <= Len(s) /\ s[i + 1] \in {QUOTE, BSLASH, "/", "n"}
              THEN ScanString(s, i + 2, Append(acc, Unescape(s[i + 1])))
              ELSE JSONDecodeError
    ELSE IF s[i] = NEWLINE THEN JSONDecodeError
    ELSE ScanString(s, i + 1, Append(acc, s[i]))

\* the end of the run of digits that starts at i
RECURSIVE DigitsEnd(_, _)
DigitsEnd(s, i) ==
    IF i <= Len(s) /\ s[i] \in Digits THEN DigitsEnd(s, i + 1) ELSE i

\* an integer literal: 0, or a non-zero digit and more digits
ScanNumber(s, i) ==
    LET e == IF s[i] = "0" THEN i + 1 ELSE DigitsEnd(s, i)
    IN  Decoded("num", SubSeq(s, i, e - 1), e)

\* dict[key] = value on a dict kept as a list of pairs: a key already present
\* keeps its place and takes the new value
DictPut(d, key, value) ==
    IF \E i \in 1..Len(d) : d[i][1] = key
    THEN [i \in 1..Len(d) |-> IF d[i][1] = key THEN <<key, value>> ELSE d[i]]
    ELSE Append(d, <<key, value>>)

RECURSIVE ParseValue(_, _), ParseMembers(_, _, _), ParseElements(_, _, _)

\* the members of an object from the opening quote of a key at position i
ParseMembers(s, i, d) ==
    LET key == ScanString(s, i + 1, <<>>)
        colon == SkipWs(s, key.pos)
        value == ParseValue(s, SkipWs(s, colon + 1))
        after == SkipWs(s, value.pos)
        next == SkipWs(s, after + 1)
    IN  IF ~ key.ok THEN JSONDecodeError
        ELSE IF colon > Len(s) \/ s[colon] # ":" THEN JSONDecodeError
        ELSE IF ~ value.ok THEN JSONDecodeError
        ELSE IF after > Len(s) THEN JSONDecodeError
        ELSE IF s[after] = "}"
             THEN Decoded("obj", DictPut(d, key.val.val, value.val), after + 1)
        ELSE IF s[after] = "," /\ next <= Len(s) /\ s[next] = QUOTE
             THEN ParseMembers(s, next, DictPut(d, key.val.val, value.val))
        ELSE JSONDecodeError

\* the elements of an array from the first character of an element
ParseElements(s, i, a) ==
    LET value == ParseValue(s, i)
        after == SkipWs(s, value.pos)
    IN  IF ~ value.ok THEN JSONDecodeError
        ELSE IF after > Len(s) THEN JSONDecodeError
        ELSE IF s[after] = "]" THEN Decoded("arr", Append(a, value.val), after + 1)
        ELSE IF s[after] = ","
             THEN ParseElements(s, SkipWs(s, after + 1), Append(a, value.val))
        ELSE JSONDecodeError

\* the value that starts at position i
ParseValue(s, i) ==
    IF i > Len(s) THEN JSONDecodeError
    ELSE IF s[i] = QUOTE THEN ScanString(s, i + 1, <<>>)
    ELSE IF s[i] = "{"
         THEN LET j == SkipWs(s, i + 1)
              IN  IF j > Len(s) THEN JSONDecodeError
                  ELSE IF s[j] = "}" THEN Decoded("obj", <<>>, j + 1)
                  ELSE IF s[j] = QUOTE THEN ParseMembers(s, j, <<>>)
                  ELSE JSONDecodeError
    ELSE IF s[i] = "["
         THEN LET j == SkipWs(s, i + 1)
              IN  IF j > Len(s) THEN JSONDecodeError
                  ELSE IF s[j] = "]" THEN Decoded("arr", <<>>, j + 1)
                  ELSE ParseElements(s, j, <<>>)
    ELSE IF s[i] \in Digits THEN ScanNumber(s, i)
    ELSE IF Match(s, i, <<"n", "u", "l", "l">>) THEN Decoded("null", <<>>, i + 4)
    ELSE IF Match(s, i, <<"t", "r", "u", "e">>) THEN Decoded("bool", <<"1">>, i + 4)
    ELSE IF Match(s, i, <<"f", "a", "l", "s", "e">>) THEN Decoded("bool", <<>>, i + 5)
    ELSE JSONDecodeError

\* json.loads(s): one value between optional whitespace, nothing after it
json_loads(s) ==
    LET r == ParseValue(s, SkipWs(s, 1))
    IN  IF ~ r.ok THEN JSONDecodeError
        ELSE IF SkipWs(s, r.pos) <= Len(s) THEN JSONDecodeError
        ELSE r

(***************************************************************************)
(* fetch_contract_source (scan_contract.py:137-181).  The HTTP request of  *)
(* lines 139-150 is the function's input: data is the explorer's decoded   *)
(* answer.  The function returns (is_verified, source_code, contract_name) *)
(* or ends with the exception its try blocks do not catch: they catch      *)
(* json.JSONDecodeError only (lines 168 and 177).                          *)
(***************************************************************************)
MaxFiles == 2       \* most files in the sources map of a payload

SOURCES == <<"s", "o", "u", "r", "c", "e", "s">>

CONTENT == <<"c", "o", "n", "t", "e", "n", "t">>

\* the default of result.get("ContractName", "Unknown") (line 157)
UnknownName == <<"U", "n", "k", "n", "o", "w", "n">>

EmptyDict == [type |-> "obj", val |-> <<>>]

EmptyStr == [type |-> "str", val |-> <<>>]

Returned(text) == [exc |-> "none", text |-> text]

Raised(e) == [exc |-> e, text |-> <<>>]

\* obj.get(key, default) on a decoded dict
DictGet(obj, key, default) ==
    IF \E i \in 1..Len(obj.val) : obj.val[i][1] = key
    THEN obj.val[CHOOSE i \in 1..Len(obj.val) : obj.val[i][1] = key][2]
    ELSE default

\* sep.join(parts)
RECURSIVE Join(_, _)
Join(sep, parts) ==
    IF Len(parts) = 0 THEN <<>>
    ELSE IF Len(parts) = 1 THEN parts[1]
    ELSE parts[1] \o sep \o Join(sep, Tail(parts))

\* lines 164-167 and 173-176: sources = source_json.get("sources", {}) and
\* "\n".join(src.get("content", "") for src in sources.values()).  join
\* first runs the generator to its end, then checks that every item is a str.
JoinSources(source_json) ==
    IF source_json.type # "obj" THEN Raised("AttributeError")
    ELSE LET sources == DictGet(source_json, SOURCES, EmptyDict)
         IN  IF sources.type # "obj" THEN Raised("AttributeError")
             ELSE LET srcs == [i \in 1..Len(sources.val) |-> sources.val[i][2]]
                      contents == [i \in 1..Len(srcs) |->
                                      DictGet(srcs[i], CONTENT, EmptyStr)]
                  IN  IF \E i \in 1..Len(srcs) : srcs[i].type # "obj"
                      THEN Raised("AttributeError")
                      ELSE IF \E i \in 1..Len(srcs) : contents[i].type # "str"
                      THEN Raised("TypeError")
                      ELSE Returned(Join(<<NEWLINE>>,
                                         [i \in 1..Len(srcs) |-> contents[i].val]))

\* lines 161-169 and 171-178: try: ... except json.JSONDecodeError: pass.
\* TryUnwrapEmptyOnError gives up the source when the text does not parse.
TryUnwrapEmptyOnError(code, text) ==
    LET r == json_loads(text)
    IN  IF ~ r.ok THEN Returned(<<>>) ELSE JoinSources(r.val)

TryUnwrap(code, text) ==
    LET r == json_loads(text)
    IN  IF ~ r.ok THEN Returned(code) ELSE JoinSources(r.val)

\* lines 159-178.  NormalizeKeepsBraces parses a "{{" payload with its outer
\* braces on.
NormalizeKeepsBraces(code) ==
    IF StartsWith(code, <<"{">>) THEN TryUnwrap(code, code) ELSE Returned(code)

Normalize(code) ==
    IF StartsWith(code, <<"{", "{">>)
    THEN TryUnwrap(code, SubSeq(code, 2, Len(code) - 1))
    ELSE IF StartsWith(code, <<"{">>)
    THEN TryUnwrap(code, code)
    ELSE Returned(code)

\* lines 152-181
\* FetchVerifiedByAnswer takes the contract for verified when the explorer
\* sent a SourceCode that is not empty.
FetchVerifiedByAnswer(d) ==
    IF Get(d, "status", "") # "1" \/ ~ Truthy(Get(d, "result", <<>>))
    THEN [exc |-> "none", is_verified |-> FALSE, source_code |-> <<>>,
          contract_name |-> <<>>]
    ELSE LET answer == d["result"][1]
             n == Normalize(Get(answer, "SourceCode", <<>>))
         IN  [exc |-> n.exc,
              is_verified |-> Len(Get(answer, "SourceCode", <<>>)) > 0,
              source_code |-> n.text,
              contract_name |-> Get(answer, "ContractName", UnknownName)]

fetch_contract_source(d) ==
    IF Get(d, "status", "") # "1" \/ ~ Truthy(Get(d, "result", <<>>))
    THEN [exc |-> "none", is_verified |-> FALSE, source_code |-> <<>>,
          contract_name |-> <<>>]
    ELSE LET result == d["result"][1]
             n == Normalize(Get(result, "SourceCode", <<>>))
         IN  [exc |-> n.exc,
              is_verified |-> Len(n.text) > 0,
              source_code |-> n.text,
              contract_name |-> Get(result, "ContractName", UnknownName)]

(***************************************************************************)
(* Inputs of fetch_contract_source: the SourceCode strings an explorer can *)
(* answer with.  Plain source text; the standard-JSON payload of a         *)
(* multi-file contract, {"sources": {name: {"content": text}, ...}}, as    *)
(* it is, in one more pair of braces, cut short, and with whitespace       *)
(* around it; and payloads that are JSON but have another shape.           *)
(***************************************************************************)
\* the JSON string literal of a str
RECURSIVE Escape(_)
Escape(chars) ==
    IF Len(chars) = 0 THEN <<>>
    ELSE (IF Head(chars) = QUOTE THEN <<BSLASH, QUOTE>>
          ELSE IF Head(chars) = BSLASH THEN <<BSLASH, BSLASH>>
          ELSE IF Head(chars) = NEWLINE THEN <<BSLASH, "n">>
          ELSE <<Head(chars)>>) \o Escape(Tail(chars))

StrLit(chars) == <<QUOTE>> \o Escape(chars) \o <<QUOTE>>

\* the JSON text of a dict given as a list of <<key, text of the value>>
ObjText(pairs) ==
    <<"{">> \o Join(<<",">>, [i \in 1..Len(pairs) |->
                                StrLit(pairs[i][1]) \o <<":">> \o pairs[i][2]])
            \o <<"}">>

Contents == { <<>>, <<"X">>, <<"a", NEWLINE, QUOTE, "}">> }

FileName(i) == <<<<"A">>, <<"B">>, <<"C">>, <<"D">>>>[i] \o <<".", "s", "o", "l">>

WellFormedFiles == { ObjText(<<<<CONTENT, StrLit(c)>>>>) : c \in Contents }

MalformedFiles ==
    { StrLit(<<"x">>),
      ObjText(<<<<CONTENT, <<"1">>>>>>),
      ObjText(<<<<CONTENT, <<"n", "u", "l", "l">>>>>>) }

FileTexts == WellFormedFiles \cup {ObjText(<<>>)} \cup MalformedFiles

SourcesOf(files) == ObjText([i \in 1..Len(files) |-> <<FileName(i), files[i]>>])

WellFormedSources ==
    { SourcesOf(files) : files \in UNION {[1..n -> FileTexts] : n \in 0..MaxFiles} }

MalformedSources ==
    { <<"[", "]">>, <<"n", "u", "l", "l">>, <<"1">>, StrLit(<<"a", "b">>) }

Payloads ==
    { ObjText(<<<<SOURCES, srcs>>>>) : srcs \in WellFormedSources \cup MalformedSources }
    \cup { ObjText(<<>>),
           \* one file name twice
           ObjText(<<<<SOURCES,
                       ObjText(<<<<FileName(1), ObjText(<<<<CONTENT, StrLit(<<"X">>)>>>>)>>,
                                 <<FileName(2), ObjText(<<<<CONTENT, StrLit(<<"Z">>)>>>>)>>,
                                 <<FileName(1), ObjText(<<<<CONTENT, StrLit(<<"Y">>)>>>>)>>>>)>>>>),
           \* a settings entry before the sources, and an array in it
           ObjText(<<<<<<"l">>, <<"[", "1", ",", " ", "t", "r", "u", "e", "]">>>>,
                     <<SOURCES, SourcesOf(<<ObjText(<<<<CONTENT, StrLit(<<"X">>)>>>>)>>)>>>>) }

Wrappings(j) ==
    { j,
      <<"{">> \o j \o <<"}">>,
      SubSeq(j, 1, Len(j) - 1),
      <<"{">> \o j,
      j \o <<" ">>,
      <<" ">> \o j }

PlainTexts ==
    { <<>>, <<"X">>, <<"a", NEWLINE, "b">>, <<"c", " ", "{", "}">>, <<"{">>, <<"{", "{">> }

SourceCodes == PlainTexts \cup UNION { Wrappings(j) : j \in Payloads }

ContractName == <<"T", "o", "k", "e", "n">>

SourceAnswers ==
    { [status |-> "1", result |-> <<[SourceCode |-> sc, ContractName |-> ContractName]>>] :
          sc \in SourceCodes }
    \cup { [status |-> "1", result |-> <<[ABI |-> <<"x">>]>>], NoData }

FetchInit ==
    /\ pc = "call"
    /\ data \in SourceAnswers
    /\ source_code = <<>>
    /\ contract_name = <<>>
    /\ is_verified = FALSE
    /\ exc = "none"
    /\ findings = <<>>
    /\ ownership = OwnershipUnknown
    /\ risk_score = 0
    /\ risk_level = "none"
    /\ NoMain
    /\ order = <<>>
    /\ NoOthers

FetchContractSource ==
    /\ pc = "call"
    /\ LET r == fetch_contract_source(data)
       IN  IF r.exc = "none"
           THEN /\ pc' = "return"
                /\ is_verified' = r.is_verified
                /\ source_code' = r.source_code
                /\ contract_name' = r.contract_name
                /\ exc' = "none"
           ELSE /\ pc' = "raise"
                /\ exc' = r.exc
                /\ UNCHANGED <<is_verified, source_code, contract_name>>
    /\ UNCHANGED <<findings, ownership, risk_score, risk_level, data>>
    /\ UNCHANGED mainvars
    /\ UNCHANGED order
    /\ UNCHANGED othervars

FetchNext == FetchContractSource

FetchSpec == FetchInit /\ [][FetchNext]_vars

MaxParts == 2       \* most lines of a source text given to the scanner

(***************************************************************************)
(* re.findall(pattern, source_code, re.IGNORECASE), as scan_for_patterns   *)
(* uses it (scan_contract.py:195): the backtracking matcher of Python's re *)
(* module on the constructs the catalog's patterns are written in.         *)
(*                                                                         *)
(* A pattern is a tree of nodes [op, set, items, n]:                       *)
(*   "in"   one character of the set (compared without case)               *)
(*   "not"  one character outside the set                                  *)
(*   "cat"  the items one after the other                                  *)
(*   "alt"  the first item that leads to a match, tried left to right      *)
(*   "rpt"  items[1] n or more times, greedy: star, plus and {n,}         *)
(*   "opt"  items[1] once or not at all, greedy (?)                        *)
(*   "grp"  capture group number n around items[1]                         *)
(* A thread is [pos, caps]: the next position to read and the text of the  *)
(* groups captured so far.  Matching a node from a thread gives the        *)
(* threads it can end in, in the order the backtracking matcher tries      *)
(* them: the first one that completes the pattern is the match.            *)
(***************************************************************************)
LowerLetters ==
    <<"a", "b", "c", "d", "e", "f", "g", "h", "i", "j", "k", "l", "m",
      "n", "o", "p", "q", "r", "s", "t", "u", "v", "w", "x", "y", "z">>

UpperLetters ==
    <<"A", "B", "C", "D", "E", "F", "G", "H", "I", "J", "K", "L", "M",
      "N", "O", "P", "Q", "R", "S", "T", "U", "V", "W", "X", "Y", "Z">>

\* the lower-case letter of each upper-case letter
LowerOf == [c \in {UpperLetters[i] : i \in 1..26} |->
               LowerLetters[CHOOSE i \in 1..26 : UpperLetters[i] = c]]

\* c.lower()
Lower(c) == IF c \in DOMAIN LowerOf THEN LowerOf[c] ELSE c

Node(op, set, items, n) == [op |-> op, set |-> set, items |-> items, n |-> n]

\* a literal character
Chr(c) == Node("in", {c}, <<>>, 0)

\* [...]
In(set) == Node("in", set, <<>>, 0)

\* [^...]
NotIn(set) == Node("not", set, <<>>, 0)

Cat(items) == Node("cat", {}, items, 0)

Alt(items) == Node("alt", {}, items, 0)

\* x* is Rpt(x, 0), x+ is Rpt(x, 1), x{2,} is Rpt(x, 2)
Rpt(item, n) == Node("rpt", {}, <<item>>, n)

Opt(item) == Node("opt", {}, <<item>>, 0)

Grp(n, item) == Node("grp", {}, <<item>>, n)

\* a run of literal characters
Text(chars) == Cat([i \in 1..Len(chars) |-> Chr(chars[i])])

\* \s, \w and \d
Space == In({" ", NEWLINE})

WordChar ==
    In({LowerLetters[i] : i \in 1..26} \cup {UpperLetters[i] : i \in 1..26}
       \cup Digits \cup {"_"})

Digit == In(Digits)

\* the character matches a set under re.IGNORECASE.  SameCase compares the
\* characters as they are written.
SameCase(c, set) == c \in set

IgnoreCase(c, set) == \E x \in set : Lower(x) = Lower(c)

RECURSIVE MatchNode(_, _, _), MatchAll(_, _, _), MatchCat(_, _, _, _),
          MatchAlt(_, _, _, _), MatchRpt(_, _, _, _), MatchRptAll(_, _, _, _)

\* the threads after the node, from each of the threads in turn
MatchAll(node, s, threads) ==
    IF Len(threads) = 0 THEN <<>>
    ELSE MatchNode(node, s, Head(threads)) \o MatchAll(node, s, Tail(threads))

MatchCat(items, k, s, threads) ==
    IF k > Len(items) \/ Len(threads) = 0 THEN threads
    ELSE MatchCat(items, k + 1, s, MatchAll(items[k], s, threads))

MatchAlt(items, k, s, t) ==
    IF k > Len(items) THEN <<>>
    ELSE MatchNode(items[k], s, t) \o MatchAlt(items, k + 1, s, t)

\* greedy: first the threads that take the item once more, then the one
\* that stops here (when n repetitions are no longer owed)
MatchRpt(item, n, s, t) ==
    LET once == MatchNode(item, s, t)
        more == MatchRptAll(item, Max(n - 1, 0), s, once)
    IN  IF n > 0 THEN more ELSE more \o <<t>>

MatchRptAll(item, n, s, threads) ==
    IF Len(threads) = 0 THEN <<>>
    ELSE MatchRpt(item, n, s, Head(threads)) \o MatchRptAll(item, n, s, Tail(threads))

MatchNode(node, s, t) ==
    IF node.op = "in"
    THEN IF t.pos <= Len(s) /\ IgnoreCase(s[t.pos], node.set)
         THEN <<[t EXCEPT !.pos = @ + 1]>> ELSE <<>>
    ELSE IF node.op = "not"
    THEN IF t.pos <= Len(s) /\ ~ IgnoreCase(s[t.pos], node.set)
         THEN <<[t EXCEPT !.pos = @ + 1]>> ELSE <<>>
    ELSE IF node.op = "cat" THEN MatchCat(node.items, 1, s, <<t>>)
    ELSE IF node.op = "alt" THEN MatchAlt(node.items, 1, s, t)
    ELSE IF node.op = "rpt" THEN MatchRpt(node.items[1], node.n, s, t)
    ELSE IF node.op = "opt" THEN MatchNode(node.items[1], s, t) \o <<t>>
    ELSE \* "grp"
         LET ends == MatchNode(node.items[1], s, t)
         IN  [i \in 1..Len(ends) |->
                 [ends[i] EXCEPT !.caps[node.n] = SubSeq(s, t.pos, ends[i].pos - 1)]]

\* a group that took no part in the match reads as "" in findall's result
NoCaptures == <<<<>>, <<>>>>

\* pattern.match at position i: the first thread that completes the pattern
MatchAt(pattern, s, i) == MatchNode(pattern, s, [pos |-> i, caps |-> NoCaptures])

\* the item findall gives for a match: the matched text when the pattern has
\* no group, the text of the group when it has one, the tuple of the groups
\* when it has more.  WholeMatch gives the matched text whatever the groups.
WholeMatch(groups, s, i, m) == [kind |-> "str", val |-> SubSeq(s, i, m.pos - 1)]

FindallItem(groups, s, i, m) ==
    IF groups = 0 THEN [kind |-> "str", val |-> SubSeq(s, i, m.pos - 1)]
    ELSE IF groups = 1 THEN [kind |-> "str", val |-> m.caps[1]]
    ELSE [kind |-> "tuple", val |-> SubSeq(m.caps, 1, groups)]

\* re.findall from position i on: the matches from left to right, each
\* search starting where the match before it ended
RECURSIVE FindallFrom(_, _, _, _)
FindallFrom(pattern, groups, s, i) ==
    IF i > Len(s) THEN <<>>
    ELSE LET ms == MatchAt(pattern, s, i)
         IN  IF Len(ms) = 0 THEN FindallFrom(pattern, groups, s, i + 1)
             ELSE <<FindallItem(groups, s, i, ms[1])>>
                  \o FindallFrom(pattern, groups, s, Max(ms[1].pos, i + 1))

\* OverlappingFrom collects a match at every position that has one, also
\* inside the match before it.
RECURSIVE OverlappingFrom(_, _, _, _)
OverlappingFrom(pattern, groups, s, i) ==
    IF i > Len(s) THEN <<>>
    ELSE LET ms == MatchAt(pattern, s, i)
         IN  (IF Len(ms) = 0 THEN <<>> ELSE <<FindallItem(groups, s, i, ms[1])>>)
             \o OverlappingFrom(pattern, groups, s, i + 1)

FindallOverlapping(pattern, groups, s) == OverlappingFrom(pattern, groups, s, 1)

\* FindallEmptyText finds one empty match in the empty text.
FindallEmptyText(pattern, groups, s) ==
    IF Len(s) = 0 THEN <<[kind |-> "str", val |-> <<>>]>>
    ELSE FindallFrom(pattern, groups, s, 1)

re_findall(pattern, groups, s) == FindallFrom(pattern, groups, s, 1)

(***************************************************************************)
(* DANGEROUS_PATTERNS (scan_contract.py:34-128): the catalog, each pattern  *)
(* as the tree of the regular expression written in the source.            *)
(***************************************************************************)
\* Hidden Mint: r"function\s+\w*[Mm]int\w*\s*\([^)]*\)\s*(external|public|internal)"
PatternHiddenMint ==
    Cat(<<Text(<<"f", "u", "n", "c", "t", "i", "o", "n">>), Rpt(Space, 1),
        Rpt(WordChar, 0), In({"M", "m"}), Text(<<"i", "n", "t">>),
        Rpt(WordChar, 0), Rpt(Space, 0), Chr("("), Rpt(NotIn({")"}), 0),
        Chr(")"), Rpt(Space, 0), Grp(1, Alt(<<Text(<<"e", "x", "t", "e", "r",
        "n", "a", "l">>), Text(<<"p", "u", "b", "l", "i", "c">>), Text(<<"i",
        "n", "t", "e", "r", "n", "a", "l">>)>>))>>)

\* Honeypot - Transfer Block: r"require\s*\(\s*\w+\s*==\s*owner|require\s*\(\s*msg\.sender\s*==\s*owner"
PatternHoneypotTransferBlock ==
    Alt(<<Cat(<<Text(<<"r", "e", "q", "u", "i", "r", "e">>), Rpt(Space, 0),
        Chr("("), Rpt(Space, 0), Rpt(WordChar, 1), Rpt(Space, 0), Text(<<"=",
        "=">>), Rpt(Space, 0), Text(<<"o", "w", "n", "e", "r">>)>>),
        Cat(<<Text(<<"r", "e", "q", "u", "i", "r", "e">>), Rpt(Space, 0),
        Chr("("), Rpt(Space, 0), Text(<<"m", "s", "g", ".", "s", "e", "n",
        "d", "e", "r">>), Rpt(Space, 0), Text(<<"=", "=">>), Rpt(Space, 0),
        Text(<<"o", "w", "n", "e", "r">>)>>)>>)

\* Blacklist Function: r"function\s+\w*[Bb]lacklist\w*|mapping\s*\([^)]*\)\s*(public|private|internal)?\s*\w*[Bb]lacklist"
PatternBlacklistFunction ==
    Alt(<<Cat(<<Text(<<"f", "u", "n", "c", "t", "i", "o", "n">>), Rpt(Space,
        1), Rpt(WordChar, 0), In({"B", "b"}), Text(<<"l", "a", "c", "k", "l",
        "i", "s", "t">>), Rpt(WordChar, 0)>>), Cat(<<Text(<<"m", "a", "p",
        "p", "i", "n", "g">>), Rpt(Space, 0), Chr("("), Rpt(NotIn({")"}), 0),
        Chr(")"), Rpt(Space, 0), Opt(Grp(1, Alt(<<Text(<<"p", "u", "b", "l",
        "i", "c">>), Text(<<"p", "r", "i", "v", "a", "t", "e">>), Text(<<"i",
        "n", "t", "e", "r", "n", "a", "l">>)>>))), Rpt(Space, 0),
        Rpt(WordChar, 0), In({"B", "b"}), Text(<<"l", "a", "c", "k", "l",
        "i", "s", "t">>)>>)>>)

\* Self-Destruct: r"selfdestruct\s*\(|suicide\s*\("
PatternSelfDestruct ==
    Alt(<<Cat(<<Text(<<"s", "e", "l", "f", "d", "e", "s", "t", "r", "u", "c",
        "t">>), Rpt(Space, 0), Chr("(")>>), Cat(<<Text(<<"s", "u", "i", "c",
        "i", "d", "e">>), Rpt(Space, 0), Chr("(")>>)>>)

\* Delegatecall: r"\.delegatecall\s*\("
PatternDelegatecall ==
    Cat(<<Text(<<".", "d", "e", "l", "e", "g", "a", "t", "e", "c", "a", "l",
        "l">>), Rpt(Space, 0), Chr("(")>>)

\* Ownership Not Renounced: r"function\s+renounceOwnership|Ownable|owner\s*\(\s*\)"
PatternOwnershipNotRenounced ==
    Alt(<<Cat(<<Text(<<"f", "u", "n", "c", "t", "i", "o", "n">>), Rpt(Space,
        1), Text(<<"r", "e", "n", "o", "u", "n", "c", "e", "O", "w", "n",
        "e", "r", "s", "h", "i", "p">>)>>), Text(<<"O", "w", "n", "a", "b",
        "l", "e">>), Cat(<<Text(<<"o", "w", "n", "e", "r">>), Rpt(Space, 0),
        Chr("("), Rpt(Space, 0), Chr(")")>>)>>)

\* Pause Function: r"function\s+pause\s*\(|whenNotPaused|Pausable"
PatternPauseFunction ==
    Alt(<<Cat(<<Text(<<"f", "u", "n", "c", "t", "i", "o", "n">>), Rpt(Space,
        1), Text(<<"p", "a", "u", "s", "e">>), Rpt(Space, 0), Chr("(")>>),
        Text(<<"w", "h", "e", "n", "N", "o", "t", "P", "a", "u", "s", "e",
        "d">>), Text(<<"P", "a", "u", "s", "a", "b", "l", "e">>)>>)

\* Max Transaction Limit: r"maxTx|_maxTxAmount|maxTransactionAmount"
PatternMaxTransactionLimit ==
    Alt(<<Text(<<"m", "a", "x", "T", "x">>), Text(<<"_", "m", "a", "x", "T",
        "x", "A", "m", "o", "u", "n", "t">>), Text(<<"m", "a", "x", "T", "r",
        "a", "n", "s", "a", "c", "t", "i", "o", "n", "A", "m", "o", "u", "n",
        "t">>)>>)

\* High Tax/Fee: r"(tax|fee|Tax|Fee)\s*=\s*(\d{2,})|setTax|setFee"
PatternHighTaxFee ==
    Alt(<<Cat(<<Grp(1, Alt(<<Text(<<"t", "a", "x">>), Text(<<"f", "e",
        "e">>), Text(<<"T", "a", "x">>), Text(<<"F", "e", "e">>)>>)),
        Rpt(Space, 0), Chr("="), Rpt(Space, 0), Grp(2, Rpt(Digit, 2))>>),
        Text(<<"s", "e", "t", "T", "a", "x">>), Text(<<"s", "e", "t", "F",
        "e", "e">>)>>)

\* External Call in Transfer: r"function\s+_transfer[^}]+\.call\{"
PatternExternalCallInTransfer ==
    Cat(<<Text(<<"f", "u", "n", "c", "t", "i", "o", "n">>), Rpt(Space, 1),
        Text(<<"_", "t", "r", "a", "n", "s", "f", "e", "r">>),
        Rpt(NotIn({"}"}), 1), Text(<<".", "c", "a", "l", "l", "{">>)>>)

\* Proxy Pattern: r"Proxy|upgradeable|implementation|_implementation"
PatternProxyPattern ==
    Alt(<<Text(<<"P", "r", "o", "x", "y">>), Text(<<"u", "p", "g", "r", "a",
        "d", "e", "a", "b", "l", "e">>), Text(<<"i", "m", "p", "l", "e", "m",
        "e", "n", "t", "a", "t", "i", "o", "n">>), Text(<<"_", "i", "m", "p",
        "l", "e", "m", "e", "n", "t", "a", "t", "i", "o", "n">>)>>)

\* Anti-Bot Measures: r"antiBot|_isBot|botWallet|sniper"
PatternAntiBotMeasures ==
    Alt(<<Text(<<"a", "n", "t", "i", "B", "o", "t">>), Text(<<"_", "i", "s",
        "B", "o", "t">>), Text(<<"b", "o", "t", "W", "a", "l", "l", "e",
        "t">>), Text(<<"s", "n", "i", "p", "e", "r">>)>>)

\* Cooldown Period: r"cooldown|_cooldown|buyCooldown|sellCooldown"
PatternCooldownPeriod ==
    Alt(<<Text(<<"c", "o", "o", "l", "d", "o", "w", "n">>), Text(<<"_", "c",
        "o", "o", "l", "d", "o", "w", "n">>), Text(<<"b", "u", "y", "C", "o",
        "o", "l", "d", "o", "w", "n">>), Text(<<"s", "e", "l", "l", "C", "o",
        "o", "l", "d", "o", "w", "n">>)>>)

\* Max Wallet Limit: r"maxWallet|_maxWalletSize|maxWalletAmount"
PatternMaxWalletLimit ==
    Alt(<<Text(<<"m", "a", "x", "W", "a", "l", "l", "e", "t">>), Text(<<"_",
        "m", "a", "x", "W", "a", "l", "l", "e", "t", "S", "i", "z", "e">>),
        Text(<<"m", "a", "x", "W", "a", "l", "l", "e", "t", "A", "m", "o",
        "u", "n", "t">>)>>)

\* Reflection/Rewards: r"reflect|_rOwned|_tOwned|dividend"
PatternReflectionRewards ==
    Alt(<<Text(<<"r", "e", "f", "l", "e", "c", "t">>), Text(<<"_", "r", "O",
        "w", "n", "e", "d">>), Text(<<"_", "t", "O", "w", "n", "e", "d">>),
        Text(<<"d", "i", "v", "i", "d", "e", "n", "d">>)>>)

\* Liquidity Generation: r"swapAndLiquify|addLiquidity|_swapTokensForEth"
PatternLiquidityGeneration ==
    Alt(<<Text(<<"s", "w", "a", "p", "A", "n", "d", "L", "i", "q", "u", "i",
        "f", "y">>), Text(<<"a", "d", "d", "L", "i", "q", "u", "i", "d", "i",
        "t", "y">>), Text(<<"_", "s", "w", "a", "p", "T", "o", "k", "e", "n",
        "s", "F", "o", "r", "E", "t", "h">>)>>)

\* Marketing Wallet: r"marketingWallet|_marketingAddress|marketingFee"
PatternMarketingWallet ==
    Alt(<<Text(<<"m", "a", "r", "k", "e", "t", "i", "n", "g", "W", "a", "l",
        "l", "e", "t">>), Text(<<"_", "m", "a", "r", "k", "e", "t", "i", "n",
        "g", "A", "d", "d", "r", "e", "s", "s">>), Text(<<"m", "a", "r", "k",
        "e", "t", "i", "n", "g", "F", "e", "e">>)>>)

Rule(name, pattern, groups, description) ==
    [name |-> name, pattern |-> pattern, groups |-> groups, description |-> description]

DANGEROUS_PATTERNS ==
    [ critical |-> <<
        Rule("Hidden Mint", PatternHiddenMint, 1,
             "Owner can create unlimited tokens"),
        Rule("Honeypot - Transfer Block", PatternHoneypotTransferBlock, 0,
             "Transfer may be restricted to owner only"),
        Rule("Blacklist Function", PatternBlacklistFunction, 1,
             "Contract can blacklist addresses from trading"),
        Rule("Self-Destruct", PatternSelfDestruct, 0,
             "Contract can be destroyed, potentially stealing funds"),
        Rule("Delegatecall", PatternDelegatecall, 0,
             "Can execute arbitrary code from external contract")
      >>,
      high |-> <<
        Rule("Ownership Not Renounced", PatternOwnershipNotRenounced, 0,
             "Contract has owner privileges (check if renounced)"),
        Rule("Pause Function", PatternPauseFunction, 0,
             "Trading can be paused by owner"),
        Rule("Max Transaction Limit", PatternMaxTransactionLimit, 0,
             "Transaction limits can trap buyers"),
        Rule("High Tax/Fee", PatternHighTaxFee, 2,
             "Adjustable fees could be set extremely high"),
        Rule("External Call in Transfer", PatternExternalCallInTransfer, 0,
             "External calls during transfer can be exploited")
      >>,
      medium |-> <<
        Rule("Proxy Pattern", PatternProxyPattern, 0,
             "Upgradeable contract - logic can be changed"),
        Rule("Anti-Bot Measures", PatternAntiBotMeasures, 0,
             "Anti-bot code can be used to block legitimate users"),
        Rule("Cooldown Period", PatternCooldownPeriod, 0,
             "Trading cooldowns can prevent selling"),
        Rule("Max Wallet Limit", PatternMaxWalletLimit, 0,
             "Wallet limits can restrict accumulation")
      >>,
      info |-> <<
        Rule("Reflection/Rewards", PatternReflectionRewards, 0,
             "Reflection mechanism (complex tokenomics)"),
        Rule("Liquidity Generation", PatternLiquidityGeneration, 0,
             "Auto-liquidity feature"),
        Rule("Marketing Wallet", PatternMarketingWallet, 0,
             "Marketing fee collection")
      >> ]

(***************************************************************************)
(* scan_for_patterns (scan_contract.py:184-204).                           *)
(*                                                                         *)
(* A finding is the dict of lines 197-202; its sample is findall's first   *)
(* item, a str or a tuple of strs, kept with its kind.                     *)
(***************************************************************************)
\* lines 195-202 for the rules of one severity from rule k on, in the order
\* of the catalog
RECURSIVE ScanRules(_, _, _)
ScanRules(rules, k, code) ==
    IF k > Len(rules) THEN <<>>
    ELSE LET matches == re_findall(rules[k].pattern, rules[k].groups, code)
         IN  (IF Len(matches) > 0
              THEN <<[name |-> rules[k].name,
                      description |-> rules[k].description,
                      occurrences |-> Len(matches),
                      sample |-> matches[1]]>>
              ELSE <<>>)
             \o ScanRules(rules, k + 1, code)

\* lines 186-191: the keys of the dict the call starts from, in the order they
\* are written in; the loop of line 193 appends to the lists and adds no key
FindingsKeys == <<"critical", "high", "medium", "info">>

\* lines 186-191: the dict the call starts from, a new one with an empty list
\* for each severity.  LeftoverFindings starts from the dict of the run
\* before, when there is one.
LeftoverFindings(sevs) ==
    IF previous # NoResult /\ DOMAIN previous.findings = sevs
    THEN previous.findings
    ELSE [sev \in sevs |-> <<>>]

FreshFindings(sevs) == [sev \in sevs |-> <<>>]

\* lines 193-204: the findings of each severity appended to its list.
\* ScanUnlessRenounced leaves the Ownership Not Renounced finding out when the
\* logs say that ownership is renounced.
ScanUnlessRenounced(code) ==
    LET Kept(f) == ~ (f.name = "Ownership Not Renounced"
                      /\ check_ownership_status(logs).renounced)
    IN  [sev \in DOMAIN DANGEROUS_PATTERNS |->
            SelectSeq(ScanRules(DANGEROUS_PATTERNS[sev], 1, code), Kept)]

\* ScanLatestFirst puts each finding before the findings found earlier.
ScanLatestFirst(code) ==
    [sev \in DOMAIN DANGEROUS_PATTERNS |->
        LET found == ScanRules(DANGEROUS_PATTERNS[sev], 1, code)
        IN  [i \in 1..Len(found) |-> found[Len(found) + 1 - i]]]

scan_for_patterns(code) ==
    [sev \in DOMAIN DANGEROUS_PATTERNS |->
        FreshFindings(DOMAIN DANGEROUS_PATTERNS)[sev]
            \o ScanRules(DANGEROUS_PATTERNS[sev], 1, code)]

(***************************************************************************)
(* Inputs of scan_for_patterns: source texts of up to MaxParts lines, each *)
(* line one of a few Solidity fragments.                                   *)
(***************************************************************************)
\* "selfdestruct("
SelfDestructCall ==
    <<"s", "e", "l", "f", "d", "e", "s", "t", "r", "u", "c", "t", "(">>

\* "function mint() public"
MintFunction ==
    <<"f", "u", "n", "c", "t", "i", "o", "n", " ", "m", "i", "n", "t", "(",
      ")", " ", "p", "u", "b", "l", "i", "c">>

\* "marketingFee = 25"
MarketingFeeAssignment ==
    <<"m", "a", "r", "k", "e", "t", "i", "n", "g", "F", "e", "e", " ", "=",
      " ", "2", "5">>

\* "mapping(a) blacklist"
BlacklistMapping ==
    <<"m", "a", "p", "p", "i", "n", "g", "(", "a", ")", " ", "b", "l", "a",
      "c", "k", "l", "i", "s", "t">>

\* "buyCooldown"
BuyCooldownWord ==
    <<"b", "u", "y", "C", "o", "o", "l", "d", "o", "w", "n">>

\* "tax=5"
LowTax ==
    <<"t", "a", "x", "=", "5">>

\* "SUICIDE ("
SuicideCall ==
    <<"S", "U", "I", "C", "I", "D", "E", " ", "(">>

\* "function _transfer(){a.call{}}"
TransferWithCall ==
    <<"f", "u", "n", "c", "t", "i", "o", "n", " ", "_", "t", "r", "a", "n",
      "s", "f", "e", "r", "(", ")", "{", "a", ".", "c", "a", "l", "l", "{",
      "}", "}">>

\* "Ownable"
OwnableWord ==
    <<"O", "w", "n", "a", "b", "l", "e">>

Snippets ==
    { SelfDestructCall, MintFunction, MarketingFeeAssignment, BlacklistMapping,
      BuyCooldownWord, LowTax, SuicideCall, TransferWithCall }

\* "\n".join(parts)
JoinLines(parts) == Join(<<NEWLINE>>, parts)

ScanTexts ==
    { JoinLines(parts) : parts \in UNION {[1..n -> Snippets] : n \in 0..MaxParts} }

ScanInit ==
    /\ pc = "scan"
    /\ source_code \in ScanTexts
    /\ findings = <<>>
    /\ data = NoData
    /\ contract_name = <<>>
    /\ is_verified = FALSE
    /\ exc = "none"
    /\ ownership = OwnershipUnknown
    /\ risk_score = 0
    /\ risk_level = "none"
    /\ NoMain
    /\ order = <<>>
    /\ NoOthers

ScanForPatterns ==
    /\ pc = "scan"
    /\ findings' = scan_for_patterns(source_code)
    /\ order' = FindingsKeys
    /\ pc' = "scanned"
    /\ UNCHANGED <<is_verified, ownership, risk_score, risk_level, data,
                   source_code, contract_name, exc>>
    /\ UNCHANGED mainvars
    /\ UNCHANGED othervars

ScanNext == ScanForPatterns

ScanSpec == ScanInit /\ [][ScanNext]_vars

(***************************************************************************)
(* main (scan_contract.py:287-363): fetch, scan, ownership, score, result. *)
(* The two HTTP answers are the run's inputs; a run after the first gets   *)
(* the same answers again.                                                 *)
(***************************************************************************)
MaxRuns == 2        \* most runs of main on the same answers

\* a SourceCode in the multi-file wrapper, two files
TwoFilePayload ==
    <<"{">> \o ObjText(<<<<SOURCES,
                SourcesOf(<<ObjText(<<<<CONTENT, StrLit(SelfDestructCall)>>>>),
                            ObjText(<<<<CONTENT, StrLit(BuyCooldownWord)>>>>)>>)>>>>)
            \o <<"}">>

\* a file without content
EmptyFile == ObjText(<<<<CONTENT, StrLit(<<>>)>>>>)

\* payloads that are JSON objects without sources entries, or with files
\* without content only
EmptyPayloads ==
    { ObjText(<<>>),
      <<"{">> \o ObjText(<<>>) \o <<"}">>,
      ObjText(<<<<SOURCES, ObjText(<<>>)>>>>),
      ObjText(<<<<SOURCES, SourcesOf(<<EmptyFile>>)>>>>),
      ObjText(<<<<SOURCES, SourcesOf(<<EmptyFile, EmptyFile>>)>>>>) }

MainSourceCodes ==
    { <<>>,
      SelfDestructCall,
      MintFunction,
      MarketingFeeAssignment,
      LowTax,
      JoinLines(<<SuicideCall, BlacklistMapping>>),
      OwnableWord,
      TwoFilePayload,
      \* not JSON: scanned as it is
      <<"{">> \o SelfDestructCall,
      \* JSON whose sources are a list
      ObjText(<<<<SOURCES, <<"[", "]">>>>>>) }
    \cup EmptyPayloads

MainSourceAnswers ==
    { [status |-> "1", result |-> <<[SourceCode |-> c, ContractName |-> ContractName]>>] :
          c \in MainSourceCodes }
    \cup { [status |-> "1", result |-> <<[ABI |-> <<"x">>]>>], NoData }

MainLogAnswers ==
    { NoData,
      [status |-> "1", result |-> <<Transfer(Topic(ZeroPadding, NoAddress))>>],
      [status |-> "1", result |-> <<Transfer(Topic(ZeroPadding, HolderAddress))>>],
      [status |-> "1", result |-> <<Transfer(Topic(ZeroPadding, HolderAddress)),
                                    Transfer(Topic(ZeroPadding, NoAddress))>>] }

\* lines 325-335: the fields of the result that make the scan's outcome
ScanResult ==
    [is_verified |-> is_verified, ownership |-> ownership, findings |-> findings,
     risk_score |-> risk_score, risk_level |-> risk_level]

\* the locals of main before its first statement
MainLocals ==
    /\ source_code = <<>>
    /\ contract_name = <<>>
    /\ is_verified = FALSE
    /\ exc = "none"
    /\ findings = <<>>
    /\ ownership = OwnershipUnknown
    /\ risk_score = 0
    /\ risk_level = "none"

MainInit ==
    /\ pc = "fetch"
    /\ data \in MainSourceAnswers
    /\ logs \in MainLogAnswers
    /\ MainLocals
    /\ previous = NoResult
    /\ run = 1
    /\ order = <<>>
    /\ NoOthers

\* line 303; an exception other than requests.RequestException leaves main
\* (line 361)
MainFetch ==
    /\ pc = "fetch"
    /\ LET r == fetch_contract_source(data)
       IN  IF r.exc = "none"
           THEN /\ pc' = "scan"
                /\ is_verified' = r.is_verified
                /\ source_code' = r.source_code
                /\ contract_name' = r.contract_name
                /\ exc' = "none"
           ELSE /\ pc' = "raise"
                /\ exc' = r.exc
                /\ UNCHANGED <<is_verified, source_code, contract_name>>
    /\ UNCHANGED <<findings, ownership, risk_score, risk_level, data, mainvars>>
    /\ UNCHANGED order
    /\ UNCHANGED othervars

\* lines 312-315: findings = {} and the scan of a non-empty source
MainScan ==
    /\ pc = "scan"
    /\ findings' = IF Len(source_code) > 0 THEN scan_for_patterns(source_code) ELSE <<>>
    /\ order' = IF Len(source_code) > 0 THEN FindingsKeys ELSE <<>>
    /\ pc' = "ownership"
    /\ UNCHANGED <<is_verified, ownership, risk_score, risk_level, data,
                   source_code, contract_name, exc, mainvars>>
    /\ UNCHANGED othervars

\* line 319
MainOwnership ==
    /\ pc = "ownership"
    /\ ownership' = check_ownership_status(logs)
    /\ pc' = "score"
    /\ UNCHANGED <<findings, is_verified, risk_score, risk_level, data,
                   source_code, contract_name, exc, mainvars>>
    /\ UNCHANGED order
    /\ UNCHANGED othervars

\* lines 322-335
MainScore ==
    /\ pc = "score"
    /\ LET r == calculate_risk_score(findings, is_verified, ownership)
       IN  /\ risk_score' = r[1]
           /\ risk_level' = r[2]
    /\ pc' = "done"
    /\ UNCHANGED <<findings, is_verified, ownership, data,
                   source_code, contract_name, exc, mainvars>>
    /\ UNCHANGED order
    /\ UNCHANGED othervars

\* main is run again on the same answers, with its locals new
MainRerun ==
    /\ pc = "done"
    /\ run < MaxRuns
    /\ previous' = ScanResult
    /\ run' = run + 1
    /\ pc' = "fetch"
    /\ source_code' = <<>>
    /\ contract_name' = <<>>
    /\ is_verified' = FALSE
    /\ exc' = "none"
    /\ findings' = <<>>
    /\ order' = <<>>
    /\ ownership' = OwnershipUnknown
    /\ risk_score' = 0
    /\ risk_level' = "none"
    /\ UNCHANGED <<data, logs>>
    /\ UNCHANGED othervars

MainNext == MainFetch \/ MainScan \/ MainOwnership \/ MainScore \/ MainRerun

MainSpec == MainInit /\ [][MainNext]_vars

(***************************************************************************)
(* Properties of the risk aggregator, under RiskSpec.                      *)
(***************************************************************************)
\* number of findings the dict holds under a severity (0 when the key is absent)
Count(sev) == IF sev \in DOMAIN findings THEN Len(findings[sev]) ELSE 0

\* 1 when the condition holds, 0 otherwise
Ind(b) == IF b THEN 1 ELSE 0

\* C1: for every combination of is_verified, ownership status and per-severity
\* finding lists, the returned risk_score is an integer with
\* 1 <= risk_score <= 10.
C1_ScoreBounds ==
    pc = "return" => risk_score \in 1..10

\* C1 witness: the weighted sum is above 10 and the returned score is 10.
C1_Witness ==
    /\ pc = "return"
    /\ 3 * Count("critical") > 10
    /\ risk_score = 10

\* C2: risk_score = min(10, max(1, trunc(4*[not verified]
\* + 2*[ownership not Renounced] + 3c + 1.5h + 0.5m))): HeldBy and Unknown
\* both add 2, info findings add nothing.  The integer terms leave the
\* truncation to the sum 1.5h + 0.5m = (3h + m)/2.
C2_ScoreFormula ==
    pc = "return" =>
        risk_score =
            Min(10, Max(1, 4 * Ind(~ is_verified)
                           + 2 * Ind(ownership \in {OwnershipHeldBy, OwnershipUnknown})
                           + 3 * Count("critical")
                           + (3 * Count("high") + Count("medium")) \div 2))

\* C2 witness: ownership HeldBy, info findings present, a sum with a fractional
\* part that truncation drops, and a result the clamp leaves alone.
C2_Witness ==
    /\ pc = "return"
    /\ ownership = OwnershipHeldBy
    /\ Count("info") > 0
    /\ (3 * Count("high") + Count("medium")) % 2 = 1
    /\ risk_score \in 2..9

\* C3: the category is one of Low, Medium, High, Critical and is decided by the
\* clamped score alone: 8..10 Critical, 6..7 High, 4..5 Medium, 1..3 Low.
C3_CategoryLadder ==
    pc = "return" =>
        /\ risk_level \in {"Low", "Medium", "High", "Critical"}
        /\ risk_score \in 8..10 <=> risk_level = "Critical"
        /\ risk_score \in 6..7 <=> risk_level = "High"
        /\ risk_score \in 4..5 <=> risk_level = "Medium"
        /\ risk_score \in 1..3 <=> risk_level = "Low"

\* C3 witness: the boundary score 8 is returned with category Critical.
C3_Witness ==
    /\ pc = "return"
    /\ risk_score = 8
    /\ risk_level = "Critical"

(***************************************************************************)
(* Properties of the ownership resolver, under OwnerSpec.  The event list  *)
(* is data.result; the OwnershipStatus of the resolver's result is         *)
(* Renounced when renounced is set, Unknown when the owner is "Unknown",   *)
(* and HeldBy the reported owner otherwise.                                *)
(***************************************************************************)
StatusOf(info) ==
    IF info.renounced THEN "Renounced"
    ELSE IF info.current_owner = UnknownOwner THEN "Unknown"
    ELSE "HeldBy"

\* the topics of the last event of the answer (none when the key is absent)
LastTopics ==
    LET e == data.result[Len(data.result)]
    IN  IF "topics" \in DOMAIN e THEN e.topics ELSE <<>>

\* 40 zero digits and the canonical zero address, written out
FortyZeros == [i \in 1..40 |-> "0"]

CanonicalZeroAddress == <<"0", "x">> \o FortyZeros

\* C4: when the last event has at least three topics, the new owner is the
\* last 40 hex characters of its third topic, and the result is Renounced
\* exactly when those 40 characters are all zeros, HeldBy that address
\* otherwise.
C4_DecisionByAddress ==
    (pc = "return" /\ Len(data.result) > 0 /\ Len(LastTopics) >= 3) =>
        LET address == LastN(LastTopics[3], 40)
        IN  /\ StatusOf(ownership) = "Renounced" <=> address = FortyZeros
            /\ address # FortyZeros =>
                   /\ StatusOf(ownership) = "HeldBy"
                   /\ ownership.current_owner = <<"0", "x">> \o address

\* C5: renounced is true only if the reported owner is the canonical zero
\* address, and a resolved new-owner address that is non-empty and not the
\* zero address gives HeldBy that address with renounced false.
C5_RenouncedOnlyZero ==
    pc = "return" =>
        /\ ownership.renounced => ownership.current_owner = CanonicalZeroAddress
        /\ (Len(data.result) > 0 /\ Len(LastTopics) >= 3) =>
               LET address == LastN(LastTopics[3], 40)
               IN  (address # <<>> /\ address # FortyZeros) =>
                       /\ ~ ownership.renounced
                       /\ StatusOf(ownership) = "HeldBy"
                       /\ ownership.current_owner = <<"0", "x">> \o address

\* C5 witness: after an earlier renouncement the last event names a non-zero
\* owner, and the result is HeldBy that owner.
C5_Witness ==
    /\ pc = "return"
    /\ Len(data.result) = 2
    /\ data.result[1] = Transfer(Topic(ZeroPadding, NoAddress))
    /\ Len(LastTopics) >= 3
    /\ LastN(LastTopics[3], 40) = LowAddress
    /\ ~ ownership.renounced
    /\ ownership.current_owner = <<"0", "x">> \o LowAddress

\* a topic of 64 zero hex characters, as the explorer writes it
IsSixtyFourZeros(t) ==
    /\ Len(t) = 66
    /\ t[1] = "0" /\ t[2] = "x"
    /\ \A i \in 3..66 : t[i] = "0"

\* C6: one log event with three topics whose third topic is 64 zero hex
\* characters gives Renounced, with transfer_event_count 1.
C6_SingleRenouncement ==
    (/\ pc = "return"
     /\ Len(data.result) = 1
     /\ Len(LastTopics) = 3
     /\ IsSixtyFourZeros(LastTopics[3])) =>
        /\ StatusOf(ownership) = "Renounced"
        /\ ownership.renounced
        /\ ownership.transfer_events = 1

\* C6 witness: the resolver has returned for that one-event list.
C6_Witness ==
    /\ pc = "return"
    /\ data.status = "1"
    /\ Len(data.result) = 1
    /\ Len(LastTopics) = 3
    /\ IsSixtyFourZeros(LastTopics[3])
    /\ ownership.current_owner = CanonicalZeroAddress

\* C7: last event wins.  Every event list of the same length that ends with
\* the same event resolves to the same status and owner (and the same
\* count): the earlier events decide nothing but the count.
C7_LastEventWins ==
    (pc = "return" /\ Len(data.result) > 0) =>
        LET n == Len(data.result)
            last == data.result[n]
        IN  \A earlier \in [1..(n - 1) -> Events] :
                LET other == check_ownership_status(
                                 [status |-> "1", result |-> earlier \o <<last>>])
                IN  /\ other.renounced = ownership.renounced
                    /\ other.current_owner = ownership.current_owner
                    /\ StatusOf(other) = StatusOf(ownership)
                    /\ other.transfer_events = n

\* C7 witness: a transfer to the zero address followed by a transfer to a
\* holder resolves to HeldBy the holder, with both events counted.
C7_Witness ==
    /\ pc = "return"
    /\ data.result = <<Transfer(Topic(ZeroPadding, NoAddress)),
                       Transfer(Topic(ZeroPadding, HolderAddress))>>
    /\ StatusOf(ownership) = "HeldBy"
    /\ ownership.current_owner = <<"0", "x">> \o HolderAddress
    /\ ownership.transfer_events = 2

\* C8: when the last event of a non-empty list has fewer than three topics,
\* the resolver returns Unknown (not renounced, owner "Unknown") and
\* transfer_event_count is still the number of events in the list.
C8_MalformedLastEvent ==
    (pc # "call" /\ Len(data.result) > 0 /\ Len(LastTopics) < 3) =>
        /\ pc = "return"
        /\ ~ ownership.renounced
        /\ ownership.current_owner = UnknownOwner
        /\ StatusOf(ownership) = "Unknown"
        /\ ownership.transfer_events = Len(data.result)

\* C8 witness: two well-formed events followed by one without topics.
C8_Witness ==
    /\ pc = "return"
    /\ Len(data.result) = 3
    /\ data.result[1] \in WellFormedEvents
    /\ data.result[2] \in WellFormedEvents
    /\ "topics" \notin DOMAIN data.result[3]
    /\ StatusOf(ownership) = "Unknown"
    /\ ownership.transfer_events = 3

\* C9: an empty event list gives Unknown with transfer_event_count 0, and for
\* every event list transfer_event_count is the number of events in the list.
C9_EventCount ==
    pc = "return" =>
        /\ ownership.transfer_events = Len(data.result)
        /\ ownership.transfer_events >= 0
        /\ data.result = <<>> =>
               /\ StatusOf(ownership) = "Unknown"
               /\ ownership.transfer_events = 0

\* C9 witness: the resolver has returned Unknown with count 0 for an answer
\* of status "1" that holds no events.
C9_Witness ==
    /\ pc = "return"
    /\ data.status = "1"
    /\ data.result = <<>>
    /\ StatusOf(ownership) = "Unknown"
    /\ ownership.transfer_events = 0

(***************************************************************************)
(* Properties of the source normalizer, under FetchSpec.  The input string *)
(* is the SourceCode of the answer.                                        *)
(***************************************************************************)
\* C10: normalization never aborts: for every input string, also a payload
\* that parses as JSON but whose sources field is not a map of records with
\* a content string, the call returns a string and raises no exception.
C10_NeverAborts ==
    pc # "call" => (pc = "return" /\ exc = "none")

\* the SourceCode string of the answer ("" when the answer has none)
InputCode ==
    IF data.status = "1" /\ Len(data.result) > 0 /\ "SourceCode" \in DOMAIN data.result[1]
    THEN data.result[1].SourceCode
    ELSE <<>>

\* the text a payload that starts with "{{" or "{" is parsed from
WrappedText ==
    IF Len(InputCode) >= 2 /\ InputCode[1] = "{" /\ InputCode[2] = "{"
    THEN [i \in 1..(Len(InputCode) - 2) |-> InputCode[i + 1]]
    ELSE InputCode

\* C11: when the input starts with "{" or "{{" and the wrapped text is not
\* parseable JSON, the normalizer returns the original input string
\* unchanged, character for character (main then scans that string).
C11_FallbackUnchanged ==
    (/\ pc # "call"
     /\ Len(InputCode) > 0
     /\ InputCode[1] = "{"
     /\ ~ json_loads(WrappedText).ok) =>
        /\ pc = "return"
        /\ source_code = InputCode
        /\ is_verified

\* C11 witness: a payload in "{{" whose closing brace is missing has been
\* returned as it came.
C11_Witness ==
    /\ pc = "return"
    /\ \E j \in Payloads : InputCode = <<"{">> \o j
    /\ ~ json_loads(WrappedText).ok
    /\ source_code = InputCode

\* the single-file wrapper {"sources":{"A.sol":{"content":"X"}}} of a content X
SingleFile(x) ==
    ObjText(<<<<SOURCES, ObjText(<<<<FileName(1), ObjText(<<<<CONTENT, StrLit(x)>>>>)>>>>)>>>>)

\* C12: normalizing the single-file wrapper of a content X yields exactly X,
\* for every content X, and a plain text (one that does not start with "{")
\* is returned unchanged.
C12_RoundTrip ==
    pc # "call" =>
        /\ \A x \in Contents :
               InputCode = SingleFile(x) => (pc = "return" /\ source_code = x)
        /\ (Len(InputCode) > 0 /\ InputCode[1] # "{") =>
               (pc = "return" /\ source_code = InputCode)

\* C12 witness: a content with a line break, a quote and a brace has come
\* back out of its wrapper.
C12_Witness ==
    /\ pc = "return"
    /\ InputCode = SingleFile(<<"a", NEWLINE, QUOTE, "}">>)
    /\ source_code = <<"a", NEWLINE, QUOTE, "}">>

\* the contents, one per line
RECURSIVE Lines(_)
Lines(cs) ==
    IF Len(cs) = 0 THEN <<>>
    ELSE IF Len(cs) = 1 THEN cs[1]
    ELSE Lines(SubSeq(cs, 1, Len(cs) - 1)) \o <<NEWLINE>> \o cs[Len(cs)]

\* the payload {"sources":{name1:{"content":c1}, name2:{"content":c2}, ...}}
MultiFile(cs) ==
    ObjText(<<<<SOURCES,
                SourcesOf([i \in 1..Len(cs) |-> ObjText(<<<<CONTENT, StrLit(cs[i])>>>>)])>>>>)

\* C13: for a well-formed multi-file payload J the output is the contents of
\* all files, in the order of the map, joined by single newlines, and
\* "{" + J + "}" normalizes to the same string as J.
C13_MultiFile ==
    pc # "call" =>
        \A n \in 2..MaxFiles : \A cs \in [1..n -> Contents] :
            InputCode \in {MultiFile(cs), <<"{">> \o MultiFile(cs) \o <<"}">>} =>
                (pc = "return" /\ source_code = Lines(cs))

\* C13 witness: a two-file payload in one more pair of braces has been
\* normalized to the two contents on two lines.
C13_Witness ==
    /\ pc = "return"
    /\ InputCode = <<"{">> \o MultiFile(<<<<"X">>, <<"a", NEWLINE, QUOTE, "}">>>>) \o <<"}">>
    /\ source_code = <<"X", NEWLINE, "a", NEWLINE, QUOTE, "}">>

(***************************************************************************)
(* Claims about scan_for_patterns.                                         *)
(***************************************************************************)
\* the positions of the text at which the pattern matches
MatchStarts(pattern, s) == { i \in 1..Len(s) : Len(MatchAt(pattern, s, i)) > 0 }

\* the position after the match that begins at i
MatchEnd(pattern, s, i) == MatchAt(pattern, s, i)[1].pos

\* the non-overlapping matches read from left to right: a match counts
\* exactly when no match counted before it reaches into it
NonOverlapping(pattern, s) ==
    LET starts == MatchStarts(pattern, s)
    IN  CHOOSE chosen \in SUBSET starts :
            \A i \in starts :
                i \in chosen <=> \A j \in chosen : j < i => MatchEnd(pattern, s, j) <= i

\* the places of the findings of a rule in the list of its severity
FindingsOf(sev, name) ==
    { k \in 1..Len(findings[sev]) : findings[sev][k].name = name }

\* C14: for every text and every rule of the catalog, the scan result has a
\* Finding for the rule if and only if the rule's pattern matches the text at
\* least once, and the Finding's occurrence count is the exact number of
\* non-overlapping matches, hence at least 1.
C14_FindingIffMatch ==
    pc = "scanned" =>
        \A sev \in DOMAIN DANGEROUS_PATTERNS :
            \A r \in 1..Len(DANGEROUS_PATTERNS[sev]) :
                LET rule == DANGEROUS_PATTERNS[sev][r]
                    found == FindingsOf(sev, rule.name)
                IN  /\ (found # {}) <=> (MatchStarts(rule.pattern, source_code) # {})
                    /\ Cardinality(found) <= 1
                    /\ \A k \in found :
                           /\ findings[sev][k].occurrences =
                                  Cardinality(NonOverlapping(rule.pattern, source_code))
                           /\ findings[sev][k].occurrences >= 1

\* C14 witness: a text with buyCooldown on two lines has been scanned: the
\* Cooldown Period rule matches at four positions, two of them inside another
\* match, and its Finding counts 2, while other rules have no Finding.
C14_Witness ==
    /\ pc = "scanned"
    /\ source_code = JoinLines(<<BuyCooldownWord, BuyCooldownWord>>)
    /\ Cardinality(MatchStarts(PatternCooldownPeriod, source_code)) = 4
    /\ findings.medium = <<[name |-> "Cooldown Period",
                            description |-> "Trading cooldowns can prevent selling",
                            occurrences |-> 2,
                            sample |-> [kind |-> "str", val |-> BuyCooldownWord]]>>
    /\ findings.critical = <<>>

\* the least position at which the pattern matches
FirstStart(pattern, s) ==
    CHOOSE i \in MatchStarts(pattern, s) : \A j \in MatchStarts(pattern, s) : i <= j

\* C15: for every rule of the catalog that produces a Finding, the Finding's
\* sample is the first matched substring of the rule's whole pattern in the
\* text, also for the rules whose pattern has capture groups (Hidden Mint,
\* Blacklist Function, High Tax/Fee).
C15_SampleIsFirstMatch ==
    pc = "scanned" =>
        \A sev \in DOMAIN DANGEROUS_PATTERNS :
            \A r \in 1..Len(DANGEROUS_PATTERNS[sev]) :
                LET rule == DANGEROUS_PATTERNS[sev][r]
                IN  \A k \in FindingsOf(sev, rule.name) :
                        LET i == FirstStart(rule.pattern, source_code)
                        IN  findings[sev][k].sample =
                                WholeMatch(rule.groups, source_code, i,
                                           MatchAt(rule.pattern, source_code, i)[1])

(***************************************************************************)
(* Claims about main's pipeline.                                           *)
(***************************************************************************)
\* C16: an empty or missing source is scanned without error and yields zero
\* findings in every severity tier; the pipeline then still produces a score
\* and category from verification and ownership status alone: 4 for the
\* unverified source, 2 more unless ownership is renounced.
C16_EmptySource ==
    /\ \A sev \in Severities : Len(scan_for_patterns(<<>>)[sev]) = 0
    /\ (pc \in {"ownership", "score", "done"} /\ Len(source_code) = 0) =>
           /\ exc = "none"
           /\ ~ is_verified
           /\ \A sev \in Severities : Count(sev) = 0
    /\ (pc = "done" /\ Len(source_code) = 0) =>
           /\ risk_score = 4 + 2 * Ind(~ ownership.renounced)
           /\ risk_level = IF ownership.renounced THEN "Medium" ELSE "High"

\* C16 witness: a run on an answer whose SourceCode is empty or absent has
\* ended with the score 4, ownership renounced.
C16_Witness ==
    /\ pc = "done"
    /\ Len(source_code) = 0
    /\ data.status = "1"
    /\ ownership.renounced
    /\ risk_score = 4

\* the only matches of the catalog's rules in the text are one selfdestruct(
OneSelfDestructOnly(s) ==
    /\ \A sev \in DOMAIN DANGEROUS_PATTERNS :
           \A r \in 1..Len(DANGEROUS_PATTERNS[sev]) :
               MatchStarts(DANGEROUS_PATTERNS[sev][r].pattern, s) # {}
                   => DANGEROUS_PATTERNS[sev][r].name = "Self-Destruct"
    /\ \E i \in 1..Len(s) :
           /\ MatchStarts(PatternSelfDestruct, s) = {i}
           /\ SubSeq(s, i, MatchEnd(PatternSelfDestruct, s, i) - 1) = SelfDestructCall

\* C17: end to end, a verified source whose only rule match is one
\* selfdestruct( call, with no ownership log events, yields exactly one
\* critical Finding, named Self-Destruct, with occurrence count 1, no other
\* finding, ownership Unknown, risk_score 5 and the category Medium.
C17_SelfDestructEndToEnd ==
    (/\ pc = "done"
     /\ is_verified
     /\ OneSelfDestructOnly(source_code)
     /\ Len(logs.result) = 0)
    => /\ Len(findings.critical) = 1
       /\ findings.critical[1].name = "Self-Destruct"
       /\ findings.critical[1].occurrences = 1
       /\ \A sev \in Severities \ {"critical"} : Count(sev) = 0
       /\ ownership = OwnershipUnknown
       /\ risk_score = 5
       /\ risk_level = "Medium"

\* C17 witness: a run on the source "selfdestruct(" and an answer without
\* logs has ended.
C17_Witness ==
    /\ pc = "done"
    /\ is_verified
    /\ source_code = SelfDestructCall
    /\ logs = NoData
    /\ Count("critical") = 1

(***************************************************************************)
(* More claims about calculate_risk_score.                                 *)
(***************************************************************************)
\* C18: verification dominance: with is_verified false, zero findings and
\* Unknown ownership (no log events), risk_score is 6 and the category is
\* High.
C18_UnverifiedAlone ==
    (/\ pc = "return"
     /\ ~ is_verified
     /\ \A sev \in Severities : Count(sev) = 0
     /\ ownership = OwnershipUnknown)
    => (risk_score = 6 /\ risk_level = "High")

\* C18 witness: the score of an unverified source with a findings dict of
\* four empty lists and Unknown ownership has been calculated.
C18_Witness ==
    /\ pc = "return"
    /\ ~ is_verified
    /\ DOMAIN findings = Severities
    /\ \A sev \in Severities : Count(sev) = 0
    /\ ownership = OwnershipUnknown

\* the findings with one more critical finding, of a rule that had none
OneMoreCritical(f) ==
    [sev \in DOMAIN f \cup {"critical"} |->
        IF sev = "critical"
        THEN Get(f, "critical", <<>>) \o <<Finding(Len(Get(f, "critical", <<>>)) + 1)>>
        ELSE f[sev]]

\* the findings with one more match of the rule of the k-th critical finding
OneMoreOccurrence(f, k) == [f EXCEPT !["critical"][k].occurrences = @ + 1]

\* C19: monotonicity: adding one more critical-severity match to the source,
\* with verification status, ownership and all other findings equal, never
\* decreases risk_score, whether the match is of a rule that had a Finding
\* or of one that had none.
C19_Monotone ==
    pc = "return" =>
        /\ risk_score <= calculate_risk_score(OneMoreCritical(findings),
                                              is_verified, ownership)[1]
        /\ \A k \in 1..Count("critical") :
               risk_score <= calculate_risk_score(OneMoreOccurrence(findings, k),
                                                  is_verified, ownership)[1]

\* C19 witness: a score below 10 has been calculated for findings with a
\* critical finding, and one more critical finding raises it.
C19_Witness ==
    /\ pc = "return"
    /\ Count("critical") >= 1
    /\ risk_score < 10
    /\ risk_score < calculate_risk_score(OneMoreCritical(findings),
                                         is_verified, ownership)[1]

ResultRawScore == RawScore(findings, is_verified, ownership)

\* the findings without the one of the given name
Without(f, name) ==
    LET Other(x) == x.name # name
    IN  [sev \in DOMAIN f |-> SelectSeq(f[sev], Other)]

\* C21: the findings of a scan do not depend on the ownership log events:
\* the High finding Ownership Not Renounced is emitted whenever owner-role
\* code is present in the source, also when the resolved ownership status is
\* Renounced; when owner machinery is present and ownership is not renounced
\* the raw score contains both the +2 ownership term and the +1.5 High
\* weight.
C21_OwnershipCountedTwice ==
    (pc = "done" /\ MatchStarts(PatternOwnershipNotRenounced, source_code) # {}) =>
        /\ FindingsOf("high", "Ownership Not Renounced") # {}
        /\ ~ ownership.renounced =>
               ResultRawScore =
                   RawScore(Without(findings, "Ownership Not Renounced"), is_verified,
                            [ownership EXCEPT !.renounced = TRUE])
                   + Half(2) + 3

\* C21 witness: a run on a source with Ownable and logs that end in a
\* renouncement has ended: the finding is there and ownership is Renounced.
C21_Witness ==
    /\ pc = "done"
    /\ source_code = OwnableWord
    /\ ownership.renounced
    /\ Count("high") = 1
    /\ findings.high[1].name = "Ownership Not Renounced"

(***************************************************************************)
(* Claims about the order of the findings.                                 *)
(***************************************************************************)
\* the place of the rule of the given name in the catalog's list of a severity
RuleIndex(sev, name) ==
    CHOOSE r \in 1..Len(DANGEROUS_PATTERNS[sev]) : DANGEROUS_PATTERNS[sev][r].name = name

\* C22: in every scan result the findings are grouped under the four
\* severities in the order critical, high, medium, info, and within each
\* severity the Findings appear in the same relative order as their rules
\* appear in the catalog.
C22_CatalogOrder ==
    pc = "scanned" =>
        /\ order = <<"critical", "high", "medium", "info">>
        /\ DOMAIN findings = {order[i] : i \in 1..Len(order)}
        /\ \A sev \in DOMAIN findings :
               \A a, b \in 1..Len(findings[sev]) :
                   a < b => RuleIndex(sev, findings[sev][a].name)
                                < RuleIndex(sev, findings[sev][b].name)

\* C22 witness: a text with suicide ( on its first line and a blacklist
\* mapping on its second has been scanned: the Blacklist Function finding
\* comes first, as in the catalog.
C22_Witness ==
    /\ pc = "scanned"
    /\ source_code = JoinLines(<<SuicideCall, BlacklistMapping>>)
    /\ Len(findings.critical) = 2
    /\ findings.critical[1].name = "Blacklist Function"
    /\ findings.critical[2].name = "Self-Destruct"

(***************************************************************************)
(* scan_for_patterns rule by rule (scan_contract.py:193-202): the turns of  *)
(* the inner loop handed out in catalog order to up to MaxWorkers workers, *)
(* ended in any order, each writing the slot of its rule, and the slots    *)
(* put together in catalog order at the end.                               *)
(***************************************************************************)
\* the values the variables of the scanner's pipeline start a call with
NoScan ==
    /\ findings = <<>>
    /\ is_verified = FALSE
    /\ ownership = OwnershipUnknown
    /\ risk_score = 0
    /\ contract_name = <<>>
    /\ order = <<>>
    /\ NoMain

\* the rules in catalog order, each named by its severity and its place
RECURSIVE RulesFrom(_)
RulesFrom(k) ==
    IF k > Len(FindingsKeys) THEN <<>>
    ELSE [r \in 1..Len(DANGEROUS_PATTERNS[FindingsKeys[k]]) |-> <<FindingsKeys[k], r>>]
         \o RulesFrom(k + 1)

RuleSeq == RulesFrom(1)

RuleIds == { RuleSeq[i] : i \in 1..Len(RuleSeq) }

MaxWorkers == 2     \* most rules under evaluation at the same time

Pending == [at |-> "pending", out |-> <<>>]

\* lines 195-202 for one rule: the list of its findings, empty or of one.
\* EvalSlotOnePerTier gives nothing when a slot of the same severity was
\* written with a finding before.
EvalSlotOnePerTier(sev, r, code) ==
    IF \E q \in 1..Len(DANGEROUS_PATTERNS[sev]) : Len(slots[<<sev, q>>].out) > 0
    THEN <<>>
    ELSE ScanRules(<<DANGEROUS_PATTERNS[sev][r]>>, 1, code)

EvalSlot(sev, r, code) == ScanRules(<<DANGEROUS_PATTERNS[sev][r]>>, 1, code)

\* the slots of a severity one after the other, from rule r on
RECURSIVE Concat(_, _)
Concat(sev, r) ==
    IF r > Len(DANGEROUS_PATTERNS[sev]) THEN <<>>
    ELSE slots[<<sev, r>>].out \o Concat(sev, r + 1)

ByRuleTexts ==
    { JoinLines(<<MarketingFeeAssignment, SuicideCall, BlacklistMapping>>),
      JoinLines(<<BuyCooldownWord, MintFunction>>) }

ByRuleInit ==
    /\ pc = "rules"
    /\ source_code \in ByRuleTexts
    /\ slots = [id \in RuleIds |-> Pending]
    /\ NoScan
    /\ data = NoData
    /\ risk_level = "none"
    /\ exc = "none"
    /\ NoLiquidity /\ NoReport /\ NoValidate /\ NoHolders

ByRuleUnchanged ==
    UNCHANGED <<pc, data, risk_level, exc, scanvars,
                liquidityvars, reportvars, validatevars, holdersvars>>

\* a free worker takes the next rule of the catalog
TakeRule(i) ==
    /\ pc = "rules"
    /\ slots[RuleSeq[i]].at = "pending"
    /\ \A j \in 1..(i - 1) : slots[RuleSeq[j]].at # "pending"
    /\ Cardinality({id \in RuleIds : slots[id].at = "taken"}) < MaxWorkers
    /\ slots' = [slots EXCEPT ![RuleSeq[i]].at = "taken"]
    /\ ByRuleUnchanged

\* a worker ends its turn of the loop of line 194 and writes its rule's slot
EvalRule(i) ==
    /\ pc = "rules"
    /\ slots[RuleSeq[i]].at = "taken"
    /\ slots' = [slots EXCEPT ![RuleSeq[i]] =
                    [at |-> "done",
                     out |-> EvalSlot(RuleSeq[i][1], RuleSeq[i][2], source_code)]]
    /\ ByRuleUnchanged

\* line 204: the result, the slots of each severity in catalog order
MergeSlots ==
    /\ pc = "rules"
    /\ \A id \in RuleIds : slots[id].at = "done"
    /\ findings' = [sev \in DOMAIN DANGEROUS_PATTERNS |-> Concat(sev, 1)]
    /\ order' = FindingsKeys
    /\ pc' = "scanned"
    /\ UNCHANGED <<is_verified, ownership, risk_score, risk_level, data,
                   source_code, contract_name, exc, mainvars, othervars>>

ByRuleNext ==
    \/ \E i \in 1..Len(RuleSeq) : TakeRule(i)
    \/ \E i \in 1..Len(RuleSeq) : EvalRule(i)
    \/ MergeSlots

ByRuleSpec == ByRuleInit /\ [][ByRuleNext]_vars

\* C23: rule evaluation is independent and order-insensitive: whether a rule
\* yields a Finding, and its count and sample, depend only on that rule and
\* the text (a span matched by two rules yields a Finding for both, nothing
\* is deduplicated), so evaluating the rules in any order, each writing its
\* own slot, gives the same findings per severity as the sequential scan in
\* catalog order.
C23_OrderInsensitive ==
    pc = "scanned" =>
        /\ \A id \in RuleIds :
               slots[id].out =
                   ScanRules(<<DANGEROUS_PATTERNS[id[1]][id[2]]>>, 1, source_code)
        /\ findings = scan_for_patterns(source_code)

\* C23 witness: the rules have been evaluated on a text in which "Fee" is
\* matched by the High Tax/Fee rule and, inside marketingFee, by the
\* Marketing Wallet rule; both have their Finding after the merge.
C23_Witness ==
    /\ pc = "scanned"
    /\ source_code = JoinLines(<<MarketingFeeAssignment, SuicideCall, BlacklistMapping>>)
    /\ Len(findings.critical) = 2
    /\ Len(findings.high) = 1
    /\ findings.high[1].name = "High Tax/Fee"
    /\ Len(findings.info) = 1
    /\ findings.info[1].name = "Marketing Wallet"

(***************************************************************************)
(* Claims about unverified contracts.                                      *)
(***************************************************************************)
\* C24: in the full pipeline is_verified is false exactly when the
\* normalized source is empty, so an unverified contract always has zero
\* findings and its risk_score is 4 when ownership is renounced and 6
\* otherwise: an unverified contract is never categorized Critical or Low.
C24_UnverifiedScore ==
    /\ pc \in {"scan", "ownership", "score", "done"} =>
           (is_verified <=> Len(source_code) > 0)
    /\ (pc \in {"ownership", "score", "done"} /\ ~ is_verified) =>
           \A sev \in Severities : Count(sev) = 0
    /\ (pc = "done" /\ ~ is_verified) =>
           /\ risk_score = IF ownership.renounced THEN 4 ELSE 6
           /\ risk_level \in {"Medium", "High"}

\* C24 witness: a run on an answer whose SourceCode is not empty and is
\* normalized to the empty text has ended, unverified, with the score 6.
C24_Witness ==
    /\ pc = "done"
    /\ data.status = "1"
    /\ "SourceCode" \in DOMAIN data.result[1]
    /\ Len(data.result[1].SourceCode) > 0
    /\ ~ is_verified
    /\ risk_score = 6
    /\ risk_level = "High"

\* the findings of the source written twice, one copy under the other
TwiceFindings == scan_for_patterns(JoinLines(<<source_code, source_code>>))

\* C25: risk_score depends only on how many distinct rules matched in each
\* severity tier, never on occurrence counts: more occurrences of a rule that
\* already matched leave the score unchanged, because each rule contributes
\* at most one Finding (at most 5 critical, 5 high, 4 medium and 3 info
\* Findings, with distinct names).
C25_ScoreIgnoresOccurrences ==
    (pc = "done" /\ Len(source_code) > 0) =>
        /\ <<Len(DANGEROUS_PATTERNS.critical), Len(DANGEROUS_PATTERNS.high),
             Len(DANGEROUS_PATTERNS.medium), Len(DANGEROUS_PATTERNS.info)>>
               = <<5, 5, 4, 3>>
        /\ \A sev \in Severities :
               /\ Count(sev) <= Len(DANGEROUS_PATTERNS[sev])
               /\ \A a, b \in 1..Count(sev) :
                      findings[sev][a].name = findings[sev][b].name => a = b
               /\ Len(TwiceFindings[sev]) = Count(sev)
               /\ \A k \in 1..Count(sev) :
                      /\ TwiceFindings[sev][k].name = findings[sev][k].name
                      /\ TwiceFindings[sev][k].occurrences > findings[sev][k].occurrences
        /\ calculate_risk_score(TwiceFindings, is_verified, ownership)
               = <<risk_score, risk_level>>

\* C25 witness: a run on the source "selfdestruct(" has ended with the score
\* 3; the source written twice has two occurrences of the same rule.
C25_Witness ==
    /\ pc = "done"
    /\ source_code = SelfDestructCall
    /\ ownership.renounced
    /\ risk_score = 3
    /\ TwiceFindings.critical[1].occurrences = 2

\* C26: a non-empty payload that parses as a JSON object but has no sources
\* entries, or only files with empty content, is normalized to the empty
\* string rather than kept as the original text; the pipeline then reports
\* is_verified = false and skips the pattern scan.
C26_EmptyPayload ==
    (/\ pc \in {"scan", "ownership", "score", "done"}
     /\ data.status = "1"
     /\ "SourceCode" \in DOMAIN data.result[1]
     /\ data.result[1].SourceCode \in EmptyPayloads)
    => /\ source_code = <<>>
       /\ ~ is_verified
       /\ pc # "scan" => (findings = <<>> /\ order = <<>>)

(***************************************************************************)
(* check_liquidity.py: find_liquidity_pairs (80-123), check_lp_lock_status *)
(* (126-179), assess_liquidity_risk (194-205) and main (208-266).          *)
(***************************************************************************)

\* s.lower()
LowerStr(s) == [i \in 1..Len(s) |-> Lower(s[i])]

DigitChars == <<"0", "1", "2", "3", "4", "5", "6", "7", "8", "9">>

DigitValue(c) == (CHOOSE i \in 1..10 : DigitChars[i] = c) - 1

\* int(s) of a str of decimal digits
RECURSIVE ParseInt(_)
ParseInt(s) ==
    IF Len(s) = 0 THEN 0
    ELSE 10 * ParseInt(SubSeq(s, 1, Len(s) - 1)) + DigitValue(s[Len(s)])

\* int(tx.get("value", 0))
ValueOf(tx) == IF "value" \in DOMAIN tx THEN ParseInt(tx.value) ELSE 0

MinTxCount == 5     \* transfers that make a receiver a likely LP contract
MaxPairs == 10      \* pairs find_liquidity_pairs returns at most
FullLock == 80      \* lock percentage from which the lock counts as full

\* tx.get("to", "").lower() of the i-th transfer
ToAddr(txs, i) == LowerStr(Get(txs[i], "to", <<>>))

\* the sum of the values of the transfers at the positions
RECURSIVE TotalValue(_, _)
TotalValue(txs, positions) ==
    IF positions = {} THEN 0
    ELSE LET i == CHOOSE j \in positions : TRUE
         IN  ValueOf(txs[i]) + TotalValue(txs, positions \ {i})

\* the loop of lines 104-114: a candidate per receiver, in the order of the
\* receivers' first transfers, with the count and the total of its transfers
Candidates(txs) ==
    LET first == SelectSeq([i \in 1..Len(txs) |-> i],
                           LAMBDA i : /\ ToAddr(txs, i) # <<>>
                                      /\ \A j \in 1..(i - 1) :
                                            ToAddr(txs, j) # ToAddr(txs, i))
        Of(i) == {j \in 1..Len(txs) : ToAddr(txs, j) = ToAddr(txs, i)}
    IN  [k \in 1..Len(first) |->
           [address |-> ToAddr(txs, first[k]),
            tx_count |-> Cardinality(Of(first[k])),
            total_value |-> TotalValue(txs, Of(first[k]))]]

\* list.sort(key=total_value, reverse=True): stable, largest first
RECURSIVE SortByValue(_)
SortByValue(list) ==
    IF Len(list) <= 1 THEN list
    ELSE LET rest == SortByValue(SubSeq(list, 1, Len(list) - 1))
             last == list[Len(list)]
             k == Cardinality({i \in 1..Len(rest) :
                                 rest[i].total_value >= last.total_value})
         IN  SubSeq(rest, 1, k) \o <<last>> \o SubSeq(rest, k + 1, Len(rest))

\* find_liquidity_pairs from the explorer's answer (lines 97-123)
find_liquidity_pairs(d) ==
    IF Get(d, "status", "None") # "1" THEN <<>>
    ELSE LET lp_candidates == Candidates(Get(d, "result", <<>>))
             likely == SelectSeq(lp_candidates,
                                 LAMBDA lp : lp.tx_count >= MinTxCount)
             sorted == SortByValue(likely)
         IN  SubSeq(sorted, 1, Min(MaxPairs, Len(sorted)))

\* "0x663A5C229c09b049E36dCc11a9B0d4a8Eb9db214"
Unicrypt ==
    <<"0", "x", "6", "6", "3", "A", "5", "C", "2", "2", "9", "c", "0", "9",
      "b", "0", "4", "9", "E", "3", "6", "d", "C", "c", "1", "1", "a", "9",
      "B", "0", "d", "4", "a", "8", "E", "b", "9", "d", "b", "2", "1", "4">>

\* "0xDba68f07d1b7Ca219f78ae8582C213d975c25cAf"
TeamFinance ==
    <<"0", "x", "D", "b", "a", "6", "8", "f", "0", "7", "d", "1", "b", "7",
      "C", "a", "2", "1", "9", "f", "7", "8", "a", "e", "8", "5", "8", "2",
      "C", "2", "1", "3", "d", "9", "7", "5", "c", "2", "5", "c", "A", "f">>

\* "0xC765bddB93b0D1c1A88282BA0fa6B2d00E3e0c83"
PinkLock ==
    <<"0", "x", "C", "7", "6", "5", "b", "d", "d", "B", "9", "3", "b", "0",
      "D", "1", "c", "1", "A", "8", "8", "2", "8", "2", "B", "A", "0", "f",
      "a", "6", "B", "2", "d", "0", "0", "E", "3", "e", "0", "c", "8", "3">>

\* "0x407993575c91ce7643a4d4cCACc9A98c36eE1BBE"
DxLock ==
    <<"0", "x", "4", "0", "7", "9", "9", "3", "5", "7", "5", "c", "9", "1",
      "c", "e", "7", "6", "4", "3", "a", "4", "d", "4", "c", "C", "A", "C",
      "c", "9", "A", "9", "8", "c", "3", "6", "e", "E", "1", "B", "B", "E">>

\* "0xAA3d85aD9D128e0a4466F7B0d6a8D4c3dF8d9E8F"
QuickLock ==
    <<"0", "x", "A", "A", "3", "d", "8", "5", "a", "D", "9", "D", "1", "2",
      "8", "e", "0", "a", "4", "4", "6", "6", "F", "7", "B", "0", "d", "6",
      "a", "8", "D", "4", "c", "3", "d", "F", "8", "d", "9", "E", "8", "F">>

\* the known locker contracts (lines 132-144)
lockers ==
    [eth |-> <<Unicrypt, TeamFinance>>,
     bsc |-> <<PinkLock, DxLock>>,
     polygon |-> <<QuickLock>>]

Chains == {"eth", "bsc", "polygon"}

\* lock_info before the transfers are read (lines 160-165)
NoLock ==
    [is_locked |-> FALSE, locker_contract |-> "None", locked_amount |-> 0,
     lock_percentage |-> 0]

\* the loop of lines 172-177
RECURSIVE LockLoop(_, _, _)
LockLoop(txs, chain_lockers, lock_info) ==
    IF Len(txs) = 0 THEN lock_info
    ELSE LET to_addr == LowerStr(Get(Head(txs), "to", <<>>))
         IN  LockLoop(Tail(txs), chain_lockers,
                      IF to_addr \in chain_lockers
                      THEN [lock_info EXCEPT
                              !.is_locked = TRUE,
                              !.locker_contract = to_addr,
                              !.locked_amount = @ + ValueOf(Head(txs))]
                      ELSE lock_info)

\* as check_lp_lock_status, with lock_percentage set to 100 once a transfer
\* to a locker is seen
LockWithPercentage(d, ch) ==
    IF Get(d, "status", "None") # "1" THEN NoLock
    ELSE LET info == LockLoop(Get(d, "result", <<>>),
                              {LowerStr(lockers[ch][i]) : i \in 1..Len(lockers[ch])},
                              NoLock)
         IN  [info EXCEPT !.lock_percentage = IF info.is_locked THEN 100 ELSE 0]

\* check_lp_lock_status from the explorer's answer (lines 158-179)
check_lp_lock_status(d, ch) ==
    IF Get(d, "status", "None") # "1" THEN NoLock
    ELSE LockLoop(Get(d, "result", <<>>),
                  {LowerStr(lockers[ch][i]) : i \in 1..Len(lockers[ch])},
                  NoLock)

\* assess_liquidity_risk (lines 194-205)
assess_liquidity_risk(pairs, info) ==
    IF Len(pairs) = 0 THEN "Critical - No liquidity found"
    ELSE IF ~ Get(info, "is_locked", FALSE) THEN "High - Liquidity not locked"
    ELSE IF Get(info, "lock_percentage", 0) < FullLock
         THEN "Medium - Partial liquidity lock"
    ELSE "Low - Liquidity appears locked"

MaxLockTransfers == 2   \* most LP-token transfers in an answer

\* a transfer of the answer
Tx(to, value) == [to |-> to, value |-> value]

\* the address of the k-th pair, as the explorer may spell it
PairNo(k) == <<"0", "x", "P", UpperLetters[k]>>

\* n transfers of the value to the k-th pair
Transfers(k, n, value) == [i \in 1..n |-> Tx(PairNo(k), value)]

RECURSIVE ManyPairs(_)
ManyPairs(k) ==
    IF k = 0 THEN <<>>
    ELSE ManyPairs(k - 1) \o Transfers(k, MinTxCount, <<DigitChars[(k % 10) + 1]>>)

\* answers to the request for the token's transfers
TokenAnswers ==
    { NoData,
      [status |-> "0", result |-> Transfers(1, MinTxCount, <<"1">>)],
      [status |-> "1", result |-> <<>>],
      [status |-> "1"],
      [status |-> "1", result |-> Transfers(1, MinTxCount - 1, <<"1">>)],
      [status |-> "1", result |-> Transfers(1, MinTxCount, <<"1">>)],
      [status |-> "1", result |-> Transfers(1, MinTxCount, <<"1">>)
                                  \o Transfers(2, MinTxCount, <<"1", "2">>)],
      [status |-> "1", result |-> Transfers(1, MinTxCount - 1, <<"1">>)
                                  \o <<[value |-> <<"3">>], [to |-> PairNo(1)]>>],
      [status |-> "1", result |-> ManyPairs(MaxPairs + 1)] }

\* the transfers of the LP token an answer may list
LockTransfers ==
    { Tx(Unicrypt, <<"5">>), Tx(LowerStr(TeamFinance), <<"1", "2">>),
      Tx(PinkLock, <<"5">>), [to |-> QuickLock], Tx(PairNo(1), <<"5">>),
      [value |-> <<"5">>] }

\* answers to the request for the LP token's transfers
LockAnswers ==
    { NoData, [status |-> "1"] }
    \cup { [status |-> "1", result |-> txs] :
             txs \in UNION { [1..n -> LockTransfers] : n \in 0..MaxLockTransfers } }

LiquidityInit ==
    /\ pc = "find"
    /\ data \in TokenAnswers
    /\ lock_data \in LockAnswers
    /\ chain \in Chains
    /\ lp_pairs = <<>>
    /\ lock_status = <<>>
    /\ risk_level = "none"
    /\ source_code = <<>>
    /\ exc = "none"
    /\ NoScan
    /\ slots = <<>>
    /\ NoReport /\ NoValidate /\ NoHolders

LiquidityUnchanged ==
    UNCHANGED <<data, lock_data, chain, exc, scanvars, slots,
                reportvars, validatevars, holdersvars>>

\* main, lines 224-227: the pairs, and the lock status of a token without
\* pairs
LiquidityFind ==
    /\ pc = "find"
    /\ lp_pairs' = find_liquidity_pairs(data)
    /\ lock_status' = [is_locked |-> FALSE]
    /\ pc' = IF Len(lp_pairs') > 0 THEN "lock" ELSE "assess"
    /\ UNCHANGED risk_level
    /\ LiquidityUnchanged

\* main, lines 228-231: the lock status of the first pair
LiquidityLock ==
    /\ pc = "lock"
    /\ lock_status' = check_lp_lock_status(lock_data, chain)
    /\ pc' = "assess"
    /\ UNCHANGED <<lp_pairs, risk_level>>
    /\ LiquidityUnchanged

\* main, line 237
LiquidityAssess ==
    /\ pc = "assess"
    /\ risk_level' = assess_liquidity_risk(lp_pairs, lock_status)
    /\ pc' = "done"
    /\ UNCHANGED <<lp_pairs, lock_status>>
    /\ LiquidityUnchanged

LiquidityNext == LiquidityFind \/ LiquidityLock \/ LiquidityAssess

LiquiditySpec == LiquidityInit /\ [][LiquidityNext]_vars

\* C27: check_lp_lock_status never changes lock_percentage from 0, so main's
\* assessment is one of 'Critical - No liquidity found', 'High - Liquidity
\* not locked' and 'Medium - Partial liquidity lock' for every list of
\* LP-token transfers, and never 'Low - Liquidity appears locked'.
C27_LowUnreachable ==
    /\ Get(lock_status, "lock_percentage", 0) = 0
    /\ pc = "done" =>
         /\ risk_level \in {"Critical - No liquidity found",
                            "High - Liquidity not locked",
                            "Medium - Partial liquidity lock"}
         /\ risk_level = "Medium - Partial liquidity lock" <=>
              (Len(lp_pairs) > 0 /\ lock_status.is_locked)

\* C27 witness: a pair whose LP tokens went to a locker of the chain, twice,
\* is assessed as partially locked
C27_Witness ==
    /\ pc = "done"
    /\ Len(lp_pairs) > 0
    /\ lock_status.is_locked
    /\ lock_status.locked_amount = 17
    /\ lock_status.locker_contract = LowerStr(TeamFinance)
    /\ risk_level = "Medium - Partial liquidity lock"

(***************************************************************************)
(* run_slither.py: format_findings (94-149), and generate_report.py: the   *)
(* conversion of the detectors format in main (253-278).                   *)
(***************************************************************************)

\* "Unknown"
UnknownText ==
    <<"U", "n", "k", "n", "o", "w", "n">>

\* "informational"
InformationalText ==
    <<"i", "n", "f", "o", "r", "m", "a", "t", "i", "o", "n", "a", "l">>

\* "See Slither documentation for remediation guidance."
Remediation ==
    <<"S", "e", "e", " ", "S", "l", "i", "t", "h", "e", "r", " ", "d", "o",
      "c", "u", "m", "e", "n", "t", "a", "t", "i", "o", "n", " ", "f", "o",
      "r", " ", "r", "e", "m", "e", "d", "i", "a", "t", "i", "o", "n", " ",
      "g", "u", "i", "d", "a", "n", "c", "e", ".">>

\* "reentrancy-eth"
ReentrancyCheck ==
    <<"r", "e", "e", "n", "t", "r", "a", "n", "c", "y", "-", "e", "t", "h">>

\* "High"
HighImpact ==
    <<"H", "i", "g", "h">>

\* "Medium"
MediumConfidence ==
    <<"M", "e", "d", "i", "u", "m">>

\* "contracts/Token.sol"
TokenFile ==
    <<"c", "o", "n", "t", "r", "a", "c", "t", "s", "/", "T", "o", "k", "e",
      "n", ".", "s", "o", "l">>

\* "Vault.sol"
VaultFile ==
    <<"V", "a", "u", "l", "t", ".", "s", "o", "l">>

\* dict[key] = dict.get(key, 0) + 1 (lines 114-117), the dict kept as a list
\* of pairs in the order of insertion
CountUp(d, key) ==
    IF \E i \in 1..Len(d) : d[i][1] = key
    THEN [i \in 1..Len(d) |-> IF d[i][1] = key THEN <<key, d[i][2] + 1>> ELSE d[i]]
    ELSE Append(d, <<key, 1>>)

\* elem_info of an element (lines 130-143)
ElemInfo(element) ==
    LET source == Get(element, "source_mapping", <<>>)
    IN  [type |-> Get(element, "type", <<>>),
         name |-> Get(element, "name", <<>>),
         source_mapping |->
           IF DOMAIN source # {}
           THEN [filename |-> Get(source, "filename_relative", <<>>),
                 lines |-> Get(source, "lines", <<>>),
                 start |-> Get(source, "start", 0),
                 length |-> Get(source, "length", 0)]
           ELSE <<>>]

\* the formatted detector (lines 120-145)
Formatted(detector) ==
    LET elements == Get(detector, "elements", <<>>)
    IN  [check |-> Get(detector, "check", UnknownText),
         impact |-> Get(detector, "impact", UnknownText),
         confidence |-> Get(detector, "confidence", UnknownText),
         description |-> Get(detector, "description", <<>>),
         elements |-> [i \in 1..Len(elements) |-> ElemInfo(elements[i])]]

\* the summary after the detectors (lines 113-117)
RECURSIVE Summary(_, _)
Summary(detectors, acc) ==
    IF Len(detectors) = 0 THEN acc
    ELSE Summary(Tail(detectors),
                 [total |-> acc.total + 1,
                  by_impact |-> CountUp(acc.by_impact,
                                        Get(Head(detectors), "impact", UnknownText)),
                  by_confidence |-> CountUp(acc.by_confidence,
                                            Get(Head(detectors), "confidence",
                                                UnknownText))])

\* format_findings (lines 94-149)
format_findings(output) ==
    LET detectors == Get(Get(output, "results", <<>>), "detectors", <<>>)
    IN  [summary |-> Summary(detectors,
                             [total |-> 0, by_impact |-> <<>>, by_confidence |-> <<>>]),
         detectors |-> [i \in 1..Len(detectors) |-> Formatted(detectors[i])]]

\* d.get("elements", [{}])[0] raises IndexError (line 270)
RaisesIndexError(d) == Len(Get(d, "elements", <<<<>>>>)) = 0

\* the location of line 270
Location(d) ==
    Get(Get(Get(d, "elements", <<<<>>>>)[1], "source_mapping", <<>>),
        "filename", UnknownText)

\* the report finding of a detector (lines 266-272)
ReportFinding(d) ==
    [severity |-> LowerStr(Get(d, "impact", InformationalText)),
     title |-> Get(d, "check", UnknownText),
     description |-> Get(d, "description", <<>>),
     location |-> Location(d),
     recommendation |-> Remediation]

MaxDetectors == 2   \* most detectors in the analyzer's output

\* a source mapping of the analyzer
Mapping(file) ==
    [filename_relative |-> file, lines |-> <<1, 2>>, start |-> 0, length |-> 5]

\* an element of a detector
Element(source) == [type |-> <<"f">>, name |-> <<"g">>, source_mapping |-> source]

\* the detectors the analyzer may report
DetectorPool ==
    { [check |-> ReentrancyCheck, impact |-> HighImpact,
       confidence |-> MediumConfidence, description |-> <<"d">>,
       elements |-> <<Element(Mapping(TokenFile))>>],
      [check |-> ReentrancyCheck, impact |-> HighImpact,
       confidence |-> MediumConfidence, description |-> <<"d">>,
       elements |-> <<Element(Mapping(VaultFile)), Element(Mapping(TokenFile))>>],
      [check |-> ReentrancyCheck, impact |-> MediumConfidence,
       elements |-> <<[type |-> <<"f">>]>>],
      [check |-> ReentrancyCheck,
       elements |-> <<Element([lines |-> <<3>>])>>],
      [check |-> ReentrancyCheck, impact |-> HighImpact, elements |-> <<>>],
      [impact |-> HighImpact, confidence |-> MediumConfidence] }

\* the decoded outputs of the analyzer
SlitherOutputs ==
    { [success |-> TRUE], [success |-> TRUE, results |-> <<>>] }
    \cup { [success |-> TRUE, results |-> [detectors |-> ds]] :
             ds \in UNION { [1..n -> DetectorPool] : n \in 0..MaxDetectors } }

ReportInit ==
    /\ pc = "format"
    /\ slither_output \in SlitherOutputs
    /\ findings_data = <<>>
    /\ findings = <<>>
    /\ exc = "none"
    /\ is_verified = FALSE
    /\ ownership = OwnershipUnknown
    /\ risk_score = 0
    /\ risk_level = "none"
    /\ data = NoData
    /\ source_code = <<>>
    /\ contract_name = <<>>
    /\ order = <<>>
    /\ NoMain
    /\ slots = <<>>
    /\ NoLiquidity /\ NoValidate /\ NoHolders

ReportUnchanged ==
    UNCHANGED <<slither_output, is_verified, ownership, risk_score, risk_level,
                data, source_code, contract_name, order, mainvars, slots,
                liquidityvars, validatevars, holdersvars>>

\* run_slither.py main, lines 248-256: the findings document is formatted
\* and saved
ReportFormat ==
    /\ pc = "format"
    /\ findings_data' = format_findings(slither_output)
    /\ pc' = "convert"
    /\ UNCHANGED <<findings, exc>>
    /\ ReportUnchanged

\* generate_report.py main, lines 253-278: the document is loaded and its
\* detectors are converted
ReportConvert ==
    /\ pc = "convert"
    /\ "findings" \notin DOMAIN findings_data
    /\ "detectors" \in DOMAIN findings_data
    /\ LET detectors == Get(findings_data, "detectors", <<>>)
       IN  IF \E i \in 1..Len(detectors) : RaisesIndexError(detectors[i])
           THEN /\ pc' = "raise"
                /\ exc' = "IndexError"
                /\ UNCHANGED findings
           ELSE /\ pc' = "done"
                /\ findings' = [i \in 1..Len(detectors) |-> ReportFinding(detectors[i])]
                /\ UNCHANGED exc
    /\ UNCHANGED findings_data
    /\ ReportUnchanged

ReportNext == ReportFormat \/ ReportConvert

ReportSpec == ReportInit /\ [][ReportNext]_vars

\* C28: the report generator accepts every findings document format_findings
\* can produce: for any list of detectors, also with a detector whose
\* elements list is empty, the conversion of the detectors format completes
\* without raising, and the location of such a detector is "Unknown".
C28_AcceptsFormatted ==
    /\ pc # "raise"
    /\ pc = "done" =>
         /\ Len(findings) = Len(findings_data.detectors)
         /\ \A i \in 1..Len(findings) :
              Len(findings_data.detectors[i].elements) = 0
                  => findings[i].location = UnknownText

(***************************************************************************)
(* validate_skill.py: parse_frontmatter (43-68), the field validators      *)
(* (71-180) and validate_skill (212-303).  A str is a sequence of          *)
(* characters; a mapping is a list of <<key, value>> pairs, a value a       *)
(* record of its type and its content.                                     *)
(***************************************************************************)

MAX_SKILL_NAME_LENGTH == 64
MAX_DESCRIPTION_LENGTH == 1024
MAX_COMPATIBILITY_LENGTH == 500
MAX_SKILL_MD_LINES == 500
ShortDescription == 50  \* a description shorter than this draws a warning

\* "name"
NameField ==
    <<"n", "a", "m", "e">>

\* "description"
DescriptionField ==
    <<"d", "e", "s", "c", "r", "i", "p", "t", "i", "o", "n">>

\* "license"
LicenseField ==
    <<"l", "i", "c", "e", "n", "s", "e">>

\* "allowed-tools"
AllowedToolsField ==
    <<"a", "l", "l", "o", "w", "e", "d", "-", "t", "o", "o", "l", "s">>

\* "metadata"
MetadataField ==
    <<"m", "e", "t", "a", "d", "a", "t", "a">>

\* "compatibility"
CompatibilityField ==
    <<"c", "o", "m", "p", "a", "t", "i", "b", "i", "l", "i", "t", "y">>

\* "version"
VersionField ==
    <<"v", "e", "r", "s", "i", "o", "n">>

\* "pdf-tools"
SkillName ==
    <<"p", "d", "f", "-", "t", "o", "o", "l", "s">>

\* "{}"
EmptyMapping ==
    <<"{", "}">>

ALLOWED_FIELDS ==
    {NameField, DescriptionField, LicenseField, AllowedToolsField, MetadataField,
     CompatibilityField}

Dashes == <<"-", "-", "-">>

\* s.strip()
Strip(s) ==
    LET kept == {i \in 1..Len(s) : s[i] \notin Whitespace}
    IN  IF kept = {} THEN <<>>
        ELSE SubSeq(s, CHOOSE i \in kept : \A j \in kept : i <= j,
                       CHOOSE i \in kept : \A j \in kept : i >= j)

\* the places of sub in s from the place on
Finds(s, sub, from) ==
    {i \in from..(Len(s) - Len(sub) + 1) : SubSeq(s, i, i + Len(sub) - 1) = sub}

Least(set) == CHOOSE i \in set : \A j \in set : i <= j

\* s.split("\n")
RECURSIVE SplitLines(_)
SplitLines(s) ==
    LET at == Finds(s, <<NEWLINE>>, 1)
    IN  IF at = {} THEN <<s>>
        ELSE <<SubSeq(s, 1, Least(at) - 1)>>
             \o SplitLines(SubSeq(s, Least(at) + 1, Len(s)))

\* the value of a plain scalar: null, an integer or a str
Scalar(text) ==
    IF Len(text) = 0 THEN [type |-> "null", val |-> <<>>]
    ELSE IF \A i \in 1..Len(text) : text[i] \in Digits
         THEN [type |-> "num", val |-> text]
    ELSE [type |-> "str", val |-> text]

\* characters that end a plain scalar or open another kind of node
Indicators == {"{", "}", "[", "]", ":", "#", ",", "&", "*", "!", "|", ">", "%", "@"}

Plain(text) == \A i \in 1..Len(text) : text[i] \notin Indicators \cup {QUOTE}

\* a line "key: value" or "key:" of a block mapping
IsEntry(line) ==
    /\ Finds(line, <<":">>, 1) # {}
    /\ LET c == Least(Finds(line, <<":">>, 1))
       IN  /\ c > 1
           /\ line[1] # " "
           /\ Plain(SubSeq(line, 1, c - 1))
           /\ c = Len(line) \/ line[c + 1] = " "
           /\ Plain(SubSeq(line, c + 1, Len(line)))

EntryOf(line) ==
    LET c == Least(Finds(line, <<":">>, 1))
    IN  <<Strip(SubSeq(line, 1, c - 1)), Scalar(Strip(SubSeq(line, c + 1, Len(line))))>>

RECURSIVE MappingOf(_, _)
MappingOf(lines, acc) ==
    IF Len(lines) = 0 THEN acc
    ELSE MappingOf(Tail(lines), DictPut(acc, EntryOf(Head(lines))[1],
                                        EntryOf(Head(lines))[2]))

\* yaml.safe_load of a frontmatter: nothing, the empty flow mapping, a block
\* mapping of plain scalars, or one plain scalar; YAMLError for other texts
safe_load(text) ==
    LET lines == SelectSeq(SplitLines(text), LAMBDA l : Strip(l) # <<>>)
    IN  IF Len(lines) = 0 THEN [kind |-> "none", val |-> <<>>]
        ELSE IF Len(lines) = 1 /\ Strip(lines[1]) = EmptyMapping
             THEN [kind |-> "dict", val |-> <<>>]
        ELSE IF \A i \in 1..Len(lines) : IsEntry(lines[i])
             THEN [kind |-> "dict", val |-> MappingOf(lines, <<>>)]
        ELSE IF Len(lines) = 1 /\ Plain(lines[1])
             THEN [kind |-> "str", val |-> Strip(lines[1])]
        ELSE [kind |-> "YAMLError", val |-> <<>>]

\* parse_frontmatter (lines 43-68)
parse_frontmatter(text) ==
    IF ~ StartsWith(text, Dashes)
    THEN [metadata |-> <<>>, body |-> <<>>,
          errors |-> <<"SKILL.md must start with YAML frontmatter (---)">>]
    ELSE IF Finds(text, Dashes, 4) = {}
    THEN [metadata |-> <<>>, body |-> <<>>,
          errors |-> <<"SKILL.md frontmatter not properly closed with ---">>]
    ELSE LET close == Least(Finds(text, Dashes, 4))
             frontmatter_str == SubSeq(text, 4, close - 1)
             body == Strip(SubSeq(text, close + 3, Len(text)))
             loaded == safe_load(frontmatter_str)
         IN  IF loaded.kind = "YAMLError"
             THEN [metadata |-> <<>>, body |-> body,
                   errors |-> <<"Invalid YAML in frontmatter">>]
             ELSE IF loaded.kind # "dict"
             THEN [metadata |-> <<>>, body |-> body,
                   errors |-> <<"SKILL.md frontmatter must be a YAML mapping">>]
             ELSE [metadata |-> loaded.val, body |-> body, errors |-> <<>>]

\* key in metadata, metadata[key]
HasKey(metadata, key) == \E i \in 1..Len(metadata) : metadata[i][1] = key

Field(metadata, key) ==
    metadata[CHOOSE i \in 1..Len(metadata) : metadata[i][1] = key][2]

\* c.isalnum() or c == "-"
NameChars ==
    {LowerLetters[i] : i \in 1..26} \cup {UpperLetters[i] : i \in 1..26}
    \cup Digits \cup {"-"}

\* the messages the test holds of, in the order of the tests
Messages(tests) ==
    LET failed == SelectSeq(tests, LAMBDA t : t[1])
    IN  [i \in 1..Len(failed) |-> failed[i][2]]

\* validate_name (lines 71-109)
validate_name(value, dir_name) ==
    IF value.type # "str" \/ Strip(value.val) = <<>>
    THEN <<"Field 'name' must be a non-empty string">>
    ELSE LET name == Strip(value.val)
         IN  Messages(<<
               <<Len(name) > MAX_SKILL_NAME_LENGTH, "Skill name exceeds character limit">>,
               <<name # LowerStr(name), "Skill name must be lowercase">>,
               <<name[1] = "-" \/ name[Len(name)] = "-",
                 "Skill name cannot start or end with a hyphen">>,
               <<Finds(name, <<"-", "-">>, 1) # {},
                 "Skill name cannot contain consecutive hyphens">>,
               <<\E i \in 1..Len(name) : name[i] \notin NameChars,
                 "Skill name contains invalid characters">>,
               <<dir_name # name, "Directory name must match skill name">> >>)

\* validate_description (lines 112-130)
validate_description(value) ==
    IF value.type # "str" \/ Strip(value.val) = <<>>
    THEN <<"Field 'description' must be a non-empty string">>
    ELSE Messages(<<
           <<Len(value.val) > MAX_DESCRIPTION_LENGTH,
             "Description exceeds character limit">>,
           <<Len(value.val) < ShortDescription,
             "Warning: Description is very short">> >>)

\* validate_compatibility (lines 133-147)
validate_compatibility(value) ==
    IF value.type # "str" THEN <<"Field 'compatibility' must be a string">>
    ELSE Messages(<< <<Len(value.val) > MAX_COMPATIBILITY_LENGTH,
                       "Compatibility exceeds character limit">> >>)

\* validate_metadata_fields (lines 150-161)
validate_metadata_fields(metadata) ==
    Messages(<< <<\E i \in 1..Len(metadata) : metadata[i][1] \notin ALLOWED_FIELDS,
                  "Unexpected fields in frontmatter">> >>)

\* validate_body (lines 164-180)
validate_body(body) ==
    Messages(<<
      <<Cardinality(Finds(body, <<NEWLINE>>, 1)) + 1 > MAX_SKILL_MD_LINES,
        "Warning: SKILL.md body has too many lines">>,
      <<~ (StartsWith(body, <<"#">>) \/ Finds(body, <<NEWLINE, "#">>, 1) # {}),
        "Warning: SKILL.md has no headers">> >>)

\* validate_resources (lines 183-209): a warning for a script without main
validate_resources(dir) ==
    Messages(<< <<dir.script_without_main, "Warning: Script may not be executable">> >>)

IsWarning(message) == message \in
    {"Warning: Description is very short", "Warning: SKILL.md body has too many lines",
     "Warning: SKILL.md has no headers", "Warning: Script may not be executable"}

\* the loops of lines 259-265 and 272-278: warnings to the warnings,
\* the others to the errors with valid = False
Sorted(result, messages) ==
    LET errs == SelectSeq(messages, LAMBDA e : ~ IsWarning(e))
    IN  [valid |-> result.valid /\ Len(errs) = 0,
         errors |-> result.errors \o errs,
         warnings |-> result.warnings \o SelectSeq(messages, IsWarning)]

\* the loops of lines 241-243, 250-252 and 283-285: every message is an error
Failed(result, messages) ==
    [valid |-> result.valid /\ Len(messages) = 0,
     errors |-> result.errors \o messages,
     warnings |-> result.warnings]

\* the loops of lines 289-293 and 297-301: the errors leave valid as it is
Noted(result, messages) ==
    [valid |-> result.valid,
     errors |-> result.errors \o SelectSeq(messages, LAMBDA e : ~ IsWarning(e)),
     warnings |-> result.warnings \o SelectSeq(messages, IsWarning)]

Invalid(message) == [valid |-> FALSE, errors |-> <<message>>, warnings |-> <<>>]

\* lines 248-303, the checks of a parsed frontmatter
CheckFields(dir, parsed, result) ==
    LET metadata == parsed.metadata
        fields == Failed(result, validate_metadata_fields(metadata))
        named == IF ~ HasKey(metadata, NameField)
                 THEN Failed(fields, <<"Missing required field in frontmatter: name">>)
                 ELSE Sorted(fields, validate_name(Field(metadata, NameField), dir.name))
        described == IF ~ HasKey(metadata, DescriptionField)
                     THEN Failed(named, <<"Missing required field in frontmatter: description">>)
                     ELSE Sorted(named, validate_description(Field(metadata, DescriptionField)))
        compatible == IF HasKey(metadata, CompatibilityField)
                      THEN Failed(described,
                                  validate_compatibility(Field(metadata, CompatibilityField)))
                      ELSE described
    IN  Noted(Noted(compatible, validate_body(parsed.body)), validate_resources(dir))

\* validate_skill (lines 212-303) of a directory and the text of its SKILL.md
validate_skill(dir, text) ==
    IF dir.state = "missing" THEN Invalid("Path does not exist")
    ELSE IF dir.state = "file" THEN Invalid("Not a directory")
    ELSE IF dir.state = "empty" THEN Invalid("Missing required file: SKILL.md")
    ELSE LET parsed == parse_frontmatter(text)
             result == Failed([valid |-> TRUE, errors |-> <<>>, warnings |-> <<>>],
                              parsed.errors)
         IN  IF Len(parsed.metadata) = 0 THEN result
             ELSE CheckFields(dir, parsed, result)

MaxBodyLines == 2   \* most lines of the body of a SKILL.md

\* a description long enough to draw no warning
LongDescription == Rep("d", ShortDescription)

Entry(key, text) == key \o <<":", " ">> \o text

\* frontmatters, each the list of its lines
Frontmatters ==
    { <<Entry(NameField, SkillName), Entry(DescriptionField, LongDescription)>>,
      <<Entry(NameField, SkillName), Entry(DescriptionField, <<"a", " ", "b">>)>>,
      <<Entry(NameField, SkillName)>>,
      <<Entry(DescriptionField, LongDescription)>>,
      <<Entry(LicenseField, <<"M", "I", "T">>)>>,
      <<EmptyMapping>>,
      <<>>,
      <<<<"t", "e", "x", "t">>>>,
      <<Entry(NameField, <<"[">>)>>,
      <<Entry(NameField, <<"P", "D", "F">>), Entry(DescriptionField, LongDescription)>>,
      <<Entry(NameField, <<"1", "2">>), Entry(DescriptionField, LongDescription)>>,
      <<NameField \o <<":">>, Entry(DescriptionField, LongDescription)>>,
      <<Entry(NameField, <<"-", "a", "-", "-", "b", "_">>),
        Entry(DescriptionField, LongDescription)>>,
      <<Entry(NameField, Rep("a", MAX_SKILL_NAME_LENGTH + 1)),
        Entry(DescriptionField, Rep("d", MAX_DESCRIPTION_LENGTH + 1))>>,
      <<Entry(NameField, SkillName), Entry(DescriptionField, LongDescription),
        Entry(VersionField, <<"1">>)>>,
      <<Entry(NameField, SkillName), Entry(DescriptionField, LongDescription),
        Entry(CompatibilityField, <<"1", "2">>)>>,
      <<Entry(NameField, SkillName), Entry(DescriptionField, LongDescription),
        Entry(CompatibilityField, Rep("c", MAX_COMPATIBILITY_LENGTH + 1))>> }

BodyLines == { <<"#", " ", "T">>, <<"t", "e", "x", "t">> }

Bodies ==
    { JoinLines(ls) : ls \in UNION { [1..n -> BodyLines] : n \in 0..MaxBodyLines } }

\* the text of a SKILL.md with the frontmatter and the body
SkillMd(frontmatter, body) ==
    Dashes \o <<NEWLINE>> \o JoinLines(frontmatter) \o <<NEWLINE>> \o Dashes
    \o <<NEWLINE>> \o body

\* the texts of SKILL.md
SkillTexts ==
    { SkillMd(f, b) : f \in Frontmatters, b \in Bodies }
    \cup { <<"#", " ", "T">>,
           Dashes \o <<NEWLINE>> \o Entry(NameField, SkillName),
           SkillMd(<<Entry(NameField, SkillName),
                     Entry(DescriptionField, LongDescription)>>,
                   Rep(NEWLINE, MAX_SKILL_MD_LINES)) }

\* the directories: missing, a file, without SKILL.md, or with it
SkillDirs ==
    { [state |-> s, name |-> SkillName, script_without_main |-> FALSE] :
        s \in {"missing", "file", "empty"} }
    \cup { [state |-> "ok", name |-> n, script_without_main |-> w] :
             n \in {SkillName, <<"p", "d", "f">>}, w \in BOOLEAN }

ValidateInit ==
    /\ pc = "validate"
    /\ skill_dir \in SkillDirs
    /\ content \in SkillTexts
    /\ validation = <<>>
    /\ risk_level = "none"
    /\ data = NoData
    /\ source_code = <<>>
    /\ exc = "none"
    /\ NoScan
    /\ slots = <<>>
    /\ NoLiquidity /\ NoReport /\ NoHolders

ValidateUnchanged ==
    UNCHANGED <<skill_dir, content, risk_level, data, exc, scanvars, slots,
                liquidityvars, reportvars, holdersvars>>

\* main, lines 320-323: the skill is validated
ValidateSkill ==
    /\ pc = "validate"
    /\ validation' = validate_skill(skill_dir, content)
    /\ pc' = "validated"
    /\ ValidateUnchanged

\* main, lines 333-337, with --strict: warnings count as errors
ValidateStrict ==
    /\ pc = "validated"
    /\ validation' =
         IF Len(validation.warnings) > 0
         THEN [validation EXCEPT !.valid = FALSE,
                                 !.errors = @ \o validation.warnings]
         ELSE validation
    /\ pc' = "done"
    /\ ValidateUnchanged

ValidateNext == ValidateSkill \/ ValidateStrict

ValidateSpec == ValidateInit /\ [][ValidateNext]_vars

\* the frontmatter of the text holds the field
Holds(field) == HasKey(parse_frontmatter(content).metadata, field)

\* C29: validate_skill returns valid = true only if the frontmatter holds
\* both required fields, name and description: for every SKILL.md whose
\* frontmatter lacks either, also one that parses to an empty mapping, the
\* result has valid = false and a non-empty errors list.
C29_RequiredFields ==
    (pc = "validated" /\ ~ (Holds(NameField) /\ Holds(DescriptionField)))
        => (~ validation.valid /\ Len(validation.errors) > 0)

(***************************************************************************)
(* analyze_holders.py: analyze_from_transfers (78-118).  The balances dict *)
(* is a list of <<address, balance>> pairs in the order of insertion.      *)
(***************************************************************************)

HolderCap == 100    \* holders analyze_from_transfers returns at most

\* str(n)
RECURSIVE Str(_)
Str(n) ==
    IF n < 0 THEN <<"-">> \o Str(0 - n)
    ELSE IF n < 10 THEN <<DigitChars[n + 1]>>
    ELSE Str(n \div 10) \o <<DigitChars[(n % 10) + 1]>>

\* balances.get(addr, 0)
BalanceOf(dict, addr) ==
    IF \E i \in 1..Len(dict) : dict[i][1] = addr
    THEN dict[CHOOSE i \in 1..Len(dict) : dict[i][1] = addr][2]
    ELSE 0

\* as ApplyTransfer, with both new balances computed from the balances
\* before the transfer
ApplyFromOldBalances(dict, tx) ==
    LET from_addr == LowerStr(Get(tx, "from", <<>>))
        to_addr == LowerStr(Get(tx, "to", <<>>))
        value == ValueOf(tx)
        debited == IF from_addr # <<>>
                   THEN DictPut(dict, from_addr, BalanceOf(dict, from_addr) - value)
                   ELSE dict
    IN  IF to_addr # <<>>
        THEN DictPut(debited, to_addr, BalanceOf(dict, to_addr) + value)
        ELSE debited

\* a turn of the loop of lines 101-109
ApplyTransfer(dict, tx) ==
    LET from_addr == LowerStr(Get(tx, "from", <<>>))
        to_addr == LowerStr(Get(tx, "to", <<>>))
        value == ValueOf(tx)
        debited == IF from_addr # <<>>
                   THEN DictPut(dict, from_addr, BalanceOf(dict, from_addr) - value)
                   ELSE dict
    IN  IF to_addr # <<>>
        THEN DictPut(debited, to_addr, BalanceOf(debited, to_addr) + value)
        ELSE debited

\* the holders of lines 112-116, in the order of the dict
PositiveHolders(dict) ==
    LET kept == SelectSeq(dict, LAMBDA e : e[2] > 0)
    IN  [i \in 1..Len(kept) |->
           [address |-> kept[i][1], balance |-> Str(kept[i][2]), percentage |-> 0]]

\* holders.sort(key=lambda x: int(x["balance"]), reverse=True): stable,
\* largest first; the place of a holder is one more than the number of
\* holders that go before it
SortHolders(list) ==
    LET key == [i \in 1..Len(list) |-> ParseInt(list[i].balance)]
        place == [i \in 1..Len(list) |->
                    1 + Cardinality({j \in 1..Len(list) :
                                       \/ key[j] > key[i]
                                       \/ key[j] = key[i] /\ j < i})]
    IN  [k \in 1..Len(list) |-> list[CHOOSE i \in 1..Len(list) : place[i] = k]]

\* lines 111-118
HoldersOf(dict) ==
    LET sorted == SortHolders(PositiveHolders(dict))
    IN  SubSeq(sorted, 1, Min(HolderCap, Len(sorted)))

MaxTransfers == 3   \* most transfers in an answer

\* addresses as the explorer may spell them
Alice == <<"0", "x", "A", "b">>
Bob == <<"0", "x", "b", "0">>
Carol == <<"0", "x", "C">>

Move(from, to, value) == [from |-> from, to |-> to, value |-> value]

\* the transfers an answer may list
TransferPool ==
    { Move(Alice, Bob, <<"5">>), Move(Bob, Alice, <<"1", "2">>),
      Move(Bob, Carol, <<"5">>), Move(Carol, LowerStr(Carol), <<"5">>),
      Move(LowerStr(Alice), Carol, <<"1", "2">>),
      [to |-> Alice, value |-> <<"1", "2">>],
      [from |-> Alice, to |-> Bob] }

\* a sender pays k to the k-th of n receivers
Payouts(n) == [k \in 1..n |-> Move(Alice, <<"0", "x", "R">> \o Str(k), Str(k))]

\* answers to the request for the token's transfers
TransferAnswers ==
    { NoData, [status |-> "1"],
      [status |-> "0", result |-> <<Move(Alice, Bob, <<"5">>)>>],
      [status |-> "1", result |-> Payouts(HolderCap + 1)] }
    \cup { [status |-> "1", result |-> txs] :
             txs \in UNION { [1..n -> TransferPool] : n \in 0..MaxTransfers } }

HoldersInit ==
    /\ pc = "request"
    /\ data \in TransferAnswers
    /\ balances = <<>>
    /\ holders = <<>>
    /\ next_tx = 1
    /\ risk_level = "none"
    /\ source_code = <<>>
    /\ exc = "none"
    /\ NoScan
    /\ slots = <<>>
    /\ NoLiquidity /\ NoReport /\ NoValidate

HoldersUnchanged ==
    UNCHANGED <<data, risk_level, exc, scanvars, slots, liquidityvars, reportvars,
                validatevars>>

\* lines 94-98: the answer, and [] unless its status is "1"
HoldersStatus ==
    /\ pc = "request"
    /\ pc' = IF Get(data, "status", "None") # "1" THEN "done" ELSE "loop"
    /\ UNCHANGED <<balances, holders, next_tx>>
    /\ HoldersUnchanged

\* lines 101-109: a turn of the loop
HoldersTransfer ==
    /\ pc = "loop"
    /\ next_tx <= Len(Get(data, "result", <<>>))
    /\ balances' = ApplyTransfer(balances, data.result[next_tx])
    /\ next_tx' = next_tx + 1
    /\ UNCHANGED <<pc, holders>>
    /\ HoldersUnchanged

\* lines 111-118: the holders after the last transfer
HoldersReturn ==
    /\ pc = "loop"
    /\ next_tx > Len(Get(data, "result", <<>>))
    /\ holders' = HoldersOf(balances)
    /\ pc' = "done"
    /\ UNCHANGED <<balances, next_tx>>
    /\ HoldersUnchanged

HoldersNext == HoldersStatus \/ HoldersTransfer \/ HoldersReturn

HoldersSpec == HoldersInit /\ [][HoldersNext]_vars

RECURSIVE SumBalances(_)
SumBalances(dict) ==
    IF Len(dict) = 0 THEN 0 ELSE dict[1][2] + SumBalances(Tail(dict))

\* every transfer of the answer has a sender and a receiver
AllTwoSided ==
    \A i \in 1..Len(Get(data, "result", <<>>)) :
        /\ Get(data.result[i], "from", <<>>) # <<>>
        /\ Get(data.result[i], "to", <<>>) # <<>>

\* C30: after any transfers that each have a sender and a receiver, the sum
\* of the tracked balances is 0; the returned holders have strictly positive
\* balances, the balances of the dict, are sorted by balance in
\* non-increasing order, and are at most 100.
C30_BalancesAndHolders ==
    /\ (pc \in {"loop", "done"} /\ AllTwoSided) => SumBalances(balances) = 0
    /\ pc = "done" =>
         /\ Len(holders) <= HolderCap
         /\ \A i \in 1..Len(holders) :
              /\ ParseInt(holders[i].balance) > 0
              /\ BalanceOf(balances, holders[i].address) = ParseInt(holders[i].balance)
              /\ i < Len(holders) =>
                   ParseInt(holders[i].balance) >= ParseInt(holders[i + 1].balance)

\* C30 witness: more receivers with a positive balance than the list may
\* hold, each paid by the same sender
C30_Witness ==
    /\ pc = "done"
    /\ AllTwoSided
    /\ Len(balances) = HolderCap + 2
    /\ Len(holders) = HolderCap
    /\ holders[1].balance = Str(HolderCap + 1)
    /\ holders[HolderCap].balance = <<"2">>
    /\ SumBalances(balances) = 0

====
